---- MODULE Spec2Model ----
(***************************************************************************)
(* Technique-handler subsystem of harp-mapview: the handler variants       *)
(* (fill, extruded-polygon, solid/dashed-line, terrain), the               *)
(* TechniqueHandlerPool, the per-frame update protocol and the group       *)
(* merging loop of TileGeometryCreator.createObjects.                      *)
(*                                                                         *)
(* Numbers: opacities and colour alphas are percentages (0..100); widths,  *)
(* sizes, fade distances and the pixel-to-world ratio are fixed-point      *)
(* thousandths (10.0 is 10000, 0.02 is 20).                                *)
(***************************************************************************)
EXTENDS Integers, Sequences, FiniteSets, TLC

\* ------------------------------------------------------------------ bounds
MaxHandlers == 2      \* handler instances constructed in one behaviour
MaxObjects == 2       \* render objects created in one behaviour (update model)
MaxFrame == 1         \* frame numbers are 0..MaxFrame
MaxGroups == 3        \* groups of the decoded geometry

\* ------------------------------------------------------- technique values
NaN == 0 - 1                       \* JS NaN (undefined * number)
DEFAULT_FADE == 0 - 1000           \* FadingFeature.DEFAULT_FADE_NEAR / _FAR (-1.0)

Undef == [k |-> "undef", v |-> <<NaN>>]
Const(n) == [k |-> "const", v |-> <<n>>]
Interp(a, b, c) == [k |-> "expr", v |-> <<a, b, c>>]

isExpr(attr) == attr.k = "expr"
isDefined(attr) == attr.k # "undef"

\* getPropertyValue(attr, env): an expression is a function of the zoom level
getPropertyValue(attr, env) == attr.v[(env.zoom % Len(attr.v)) + 1]

\* The value of a local constant: the element of a one-element set.
The(S) == CHOOSE x \in S : TRUE

Times(a, b) == IF a = NaN \/ b = NaN THEN NaN ELSE (a * b) \div 1000
Half(a) == IF a = NaN THEN NaN ELSE a \div 2

\* Every technique carries every attribute; an absent one is Undef.
BaseTechnique ==
    [ name |-> "fill", color |-> Const(100), opacity |-> Undef,
      lineWidth |-> Undef, lineColor |-> Undef,
      fadeNear |-> Undef, fadeFar |-> Undef,
      lineFadeNear |-> Undef, lineFadeFar |-> Undef,
      emissive |-> Undef, lit |-> FALSE,
      animateExtrusion |-> Undef, enableDepthPrePass |-> FALSE,
      metricUnit |-> "Meter", outlineWidth |-> Undef,
      dashSize |-> Undef, gapSize |-> Undef,
      secondaryWidth |-> Undef, secondaryColor |-> Undef,
      clipping |-> FALSE, displacementMap |-> FALSE ]

\* The theme's techniques; the index of a technique is also its _key.
Techniques ==
    << \* 1: fill, colour (alpha) interpolated, constant outline
       [BaseTechnique EXCEPT !.color = Interp(100, 0, 50),
                             !.lineWidth = Const(1000),
                             !.lineColor = Const(100)],
       \* 2: extruded-polygon, animated, interpolated opacity and edges
       [BaseTechnique EXCEPT !.name = "extruded-polygon",
                             !.opacity = Interp(100, 50, 0),
                             !.lineWidth = Interp(1000, 1000, 2000),
                             !.lineColor = Const(100),
                             !.fadeNear = Const(500),
                             !.emissive = Interp(10, 20, 30),
                             !.lit = TRUE,
                             !.animateExtrusion = Const(1),
                             !.enableDepthPrePass = TRUE],
       \* 3: solid-line in pixels with a secondary (casing) line
       [BaseTechnique EXCEPT !.name = "solid-line",
                             !.color = Interp(100, 0, 100),
                             !.metricUnit = "Pixel",
                             !.lineWidth = Const(10000),
                             !.outlineWidth = Const(2000),
                             !.secondaryWidth = Const(8000),
                             !.secondaryColor = Interp(100, 100, 0),
                             !.clipping = TRUE],
       \* 4: terrain
       [BaseTechnique EXCEPT !.name = "terrain"],
       \* 5: line, no handler variant, legacy object constructor
       [BaseTechnique EXCEPT !.name = "line"],
       \* 6: text, neither handler variant nor object constructor
       [BaseTechnique EXCEPT !.name = "text"],
       \* 7: fill, all constant
       BaseTechnique,
       \* 8: dashed-line in world units, interpolated width and opacity,
       \*    secondary line wider than, as wide as, narrower than the main line
       [BaseTechnique EXCEPT !.name = "dashed-line",
                             !.opacity = Interp(100, 100, 50),
                             !.lineWidth = Interp(4000, 8000, 10000),
                             !.secondaryWidth = Const(8000)],
       \* 9: solid-line in world units, interpolated width and gap, constant
       \*    opaque colours, constant outline, dash and secondary width
       [BaseTechnique EXCEPT !.name = "solid-line",
                             !.lineWidth = Interp(4000, 8000, 10000),
                             !.outlineWidth = Const(2000),
                             !.dashSize = Const(4000),
                             !.gapSize = Interp(2000, 3000, 4000),
                             !.secondaryWidth = Const(8000),
                             !.secondaryColor = Const(100)],
       \* 10: dashed-line in pixels, interpolated outline, constant width,
       \*     dash and gap, no secondary line
       [BaseTechnique EXCEPT !.name = "dashed-line",
                             !.metricUnit = "Pixel",
                             !.lineWidth = Const(10000),
                             !.outlineWidth = Interp(1000, 2000, 3000),
                             !.dashSize = Const(4000),
                             !.gapSize = Const(2000)],
       \* 11: solid-line in world units, all constant, no secondary line
       [BaseTechnique EXCEPT !.name = "solid-line",
                             !.lineWidth = Const(4000),
                             !.outlineWidth = Const(1000),
                             !.dashSize = Const(3000),
                             !.gapSize = Const(2000)],
       \* 12: extruded-polygon that leaves animateExtrusion to the map view
       [BaseTechnique EXCEPT !.name = "extruded-polygon"],
       \* 13: extruded-polygon that switches the animation off
       [BaseTechnique EXCEPT !.name = "extruded-polygon",
                             !.animateExtrusion = Const(0)] >>

\* The techniques of the decoded tiles, asked of the pool; the techniques
\* after them are those a line handler is constructed for directly.
Keys == 1..8
Tiles == {1, 2}
Zooms == {0, 1, 2}

\* The expression environment: $zoom and $pixelToWorld (0.02 per zoom level;
\* NaN: the env holds no $pixelToWorld).
Env(zoom) == [zoom |-> zoom, pixelToWorld |-> IF zoom = 0 THEN NaN ELSE 20 * zoom]
Envs == {Env(zoom) : zoom \in Zooms}

\* TechniqueUpdateContext; the view range grows with the zoom level.
Context(env, frameNumber) ==
    [env |-> env, frameNumber |-> frameNumber, viewRanges |-> env.zoom + 1]

\* tile.offset
TileOffset(tile) == tile - 1

\* tile.boundingBox.getSize(): the tiles differ in size
TileSize(tile) == 1000 * tile

VARIABLES
    pool,          \* TechniqueHandlerPool.pool: key -> handler id, 0 when absent
    handlers,      \* every handler constructed so far; the index is its identity
    objects,       \* every render object constructed so far
    tiles,         \* per tile: frameNumLastVisible, objects, dynamicTechniqueHandlers
    animatedExtrusionHandler,  \* mapView.animatedExtrusionHandler
    geometries,    \* decodedTile.geometries with their groups
    enabled,       \* decodedTile.techniques[i].enabled
    returned,      \* history: per key, the handlers returned since the last reset, and to which tile
    retired,       \* history: the handlers a reset dropped from the pool
    applied,       \* history: per handler, the frame numbers its updaters ran for
    monotone,      \* history: per handler, no update call went back in frame numbers
    hist           \* history: what the last operation was and did

vars == <<pool, handlers, objects, tiles, animatedExtrusionHandler, geometries,
          enabled, returned, retired, applied, monotone, hist>>

\* ---------------------------------------------------------------- materials
NoMaterial ==
    [ opacity |-> 100, lineWidth |-> 0, outlineWidth |-> 0, dashSize |-> 0,
      gapSize |-> 0, fadeNear |-> DEFAULT_FADE, fadeFar |-> DEFAULT_FADE,
      emissive |-> 0,
      clipTileSize |-> 0 ]           \* 0: not set

OrZero(attr, env) == IF isDefined(attr) THEN getPropertyValue(attr, env) ELSE 0

\* Opacity that applyBaseColorToMaterial gives: the colour's alpha mixed with
\* the technique's opacity.
BaseOpacity(technique, colorAttr, env) ==
    IF isDefined(technique.opacity)
    THEN (getPropertyValue(colorAttr, env) * getPropertyValue(technique.opacity, env)) \div 100
    ELSE getPropertyValue(colorAttr, env)

applyBaseColorToMaterial(material, technique, colorAttr, env) ==
    IF isDefined(colorAttr)
    THEN [material EXCEPT !.opacity = BaseOpacity(technique, colorAttr, env)]
    ELSE material

createMaterial(technique, env) ==
    [ applyBaseColorToMaterial(NoMaterial, technique, technique.color, env)
      EXCEPT !.lineWidth = OrZero(technique.lineWidth, env),
             !.outlineWidth = OrZero(technique.outlineWidth, env),
             !.dashSize = OrZero(technique.dashSize, env),
             !.gapSize = OrZero(technique.gapSize, env),
             !.emissive = OrZero(technique.emissive, env) ]

cameraToWorldDistance(distance, viewRanges) == distance * viewRanges

\* ------------------------------------------------------- TechniqueHandlerCommon
FadeOf(attr, env, default) ==
    IF isDefined(attr) THEN getPropertyValue(attr, env) ELSE default

getFadingParams(technique, env) ==
    [ fadeNear |-> FadeOf(technique.fadeNear, env, DEFAULT_FADE),
      fadeFar |-> FadeOf(technique.fadeFar, env, DEFAULT_FADE) ]

getPolygonFadingParams(technique, env) ==
    LET fadeNear == FadeOf(technique.fadeNear, env, DEFAULT_FADE)
        fadeFar == FadeOf(technique.fadeFar, env, DEFAULT_FADE)
    IN  [ fadeNear |-> fadeNear, fadeFar |-> fadeFar,
          lineFadeNear |-> FadeOf(technique.lineFadeNear, env, fadeNear),
          lineFadeFar |-> FadeOf(technique.lineFadeFar, env, fadeFar) ]

isFadingFeatureEnabled(fadingParameters) ==
    fadingParameters.fadeNear # DEFAULT_FADE \/ fadingParameters.fadeFar # DEFAULT_FADE

updateFadingParams(material, fadingParameters, context) ==
    [material EXCEPT
        !.fadeNear = cameraToWorldDistance(fadingParameters.fadeNear, context.viewRanges),
        !.fadeFar = cameraToWorldDistance(fadingParameters.fadeFar, context.viewRanges)]

updateEdgeFadingParams(material, fadingParameters, context) ==
    [material EXCEPT
        !.fadeNear = cameraToWorldDistance(fadingParameters.lineFadeNear, context.viewRanges),
        !.fadeFar = cameraToWorldDistance(fadingParameters.lineFadeFar, context.viewRanges)]

\* Faulty variant: the loop without the test of the tile's last visible frame
SetVisibleOfAnyTile(objs, entries, tileState, frameNumber, visible) ==
    [ i \in 1..Len(objs) |->
        IF \E j \in 1..Len(entries) : entries[j].object = i
        THEN [objs[i] EXCEPT !.visible = visible] ELSE objs[i] ]

\* The visibility loop shared by the colour updaters: objs is the object
\* store, entries the handler's list of {object, tile}.
RECURSIVE SetVisibleOf(_, _, _, _, _)
SetVisibleOf(objs, entries, tileState, frameNumber, visible) ==
    IF entries = <<>> THEN objs
    ELSE LET entry == Head(entries)
             next == IF tileState[entry.tile].frameNumLastVisible = frameNumber
                     THEN [objs EXCEPT ![entry.object].visible = visible]
                     ELSE objs
         IN  SetVisibleOf(next, Tail(entries), tileState, frameNumber, visible)

\* Faulty variant: visible = opacity >= 0
ApplyVisibilityAlwaysVisible(objs, entries, tileState, context, lastOpacity, opacity) ==
    IF lastOpacity # opacity
    THEN SetVisibleOf(objs, entries, tileState, context.frameNumber, opacity >= 0)
    ELSE objs

\* Faulty variant: the flags are written only when the opacity goes from zero
\* to nonzero or back
ApplyVisibilityOnCrossing(objs, entries, tileState, context, lastOpacity, opacity) ==
    IF (lastOpacity > 0) # (opacity > 0)
    THEN SetVisibleOf(objs, entries, tileState, context.frameNumber, opacity > 0)
    ELSE objs

ApplyVisibility(objs, entries, tileState, context, lastOpacity, opacity) ==
    IF lastOpacity # opacity
    THEN SetVisibleOf(objs, entries, tileState, context.frameNumber, opacity > 0)
    ELSE objs

\* updateBaseColor(material, objects, technique, context) on the handler's
\* main material and main objects; w holds the handler h and the object store.
updateBaseColor(w, tileState, context) ==
    LET technique == Techniques[w.h.technique]
        lastOpacity == w.h.mainMaterial.opacity
        material == applyBaseColorToMaterial(w.h.mainMaterial, technique,
                                             technique.color, context.env)
    IN  [ w EXCEPT
            !.h.mainMaterial = material,
            !.objects = ApplyVisibility(w.objects, w.h.mainObjects, tileState, context,
                                      lastOpacity, material.opacity) ]

\* ------------------------------------------------------ GenericTechniqueHandler
GenericTechniqueHandler(key) ==
    [ technique |-> key,
      name |-> Techniques[key].name,
      isShareableAcrossTiles |-> TRUE,
      updaters |-> <<>>,
      lastUpdateFrameNumber |-> 0 - 1,
      mainMaterial |-> NoMaterial,
      hasSecond |-> FALSE,          \* outlineMaterial / edgeMaterial / secondaryMaterial
      secondMaterial |-> NoMaterial,
      mainObjects |-> <<>>,
      secondObjects |-> <<>>,       \* outlineObjects / edgeObjects / secondaryObjects
      fadingParams |-> [ fadeNear |-> DEFAULT_FADE, fadeFar |-> DEFAULT_FADE,
                         lineFadeNear |-> DEFAULT_FADE, lineFadeFar |-> DEFAULT_FADE ],
      extrusionAnimationEnabled |-> FALSE,
      metricUnitIsPixel |-> FALSE ]

\* Faulty variant: the flag is set whatever was registered
isDynamicAlways(h) == TRUE

isDynamic(h) == IF h.name = "terrain" THEN FALSE ELSE Len(h.updaters) > 0

PushIf(cond, seq, x) == IF cond THEN Append(seq, x) ELSE seq

HasLineWidth(technique) ==
    isExpr(technique.lineWidth)
    \/ (technique.lineWidth.k = "const" /\ technique.lineWidth.v[1] > 0)

\* EdgeMaterial(materialParams): opaque until a colour updater says otherwise
EdgeMaterial(fadingParams) ==
    [NoMaterial EXCEPT !.fadeNear = fadingParams.lineFadeNear,
                       !.fadeFar = fadingParams.lineFadeFar]

\* -------------------------------------------------------- FillTechniqueHandler
FillUpdaters(technique, fadingParams) ==
    LET fading == isFadingFeatureEnabled(fadingParams)
        u1 == PushIf(isExpr(technique.color) \/ isExpr(technique.opacity),
                     <<>>, "updateBaseColor")
        u2 == PushIf(fading, u1, "updateFadingParams")
        u3 == PushIf(HasLineWidth(technique) /\ fading, u2, "updateEdgeFadingParams")
    IN  PushIf(HasLineWidth(technique)
               /\ (isExpr(technique.lineColor) \/ isExpr(technique.opacity)),
               u3, "updateLineColor")

FillTechniqueHandler(key, tile, context) ==
    LET technique == Techniques[key]
        fadingParams == getPolygonFadingParams(technique, context.env)
    IN  [GenericTechniqueHandler(key) EXCEPT
            !.mainMaterial = createMaterial(technique, context.env),
            !.fadingParams = fadingParams,
            !.hasSecond = HasLineWidth(technique),
            !.secondMaterial = IF HasLineWidth(technique)
                               THEN EdgeMaterial(fadingParams) ELSE NoMaterial,
            !.updaters = FillUpdaters(technique, fadingParams)]

\* updateLineColor of the fill and the extruded-polygon handler
updateLineColor(w, tileState, context) ==
    LET technique == Techniques[w.h.technique]
        lastOpacity == w.h.secondMaterial.opacity
        material == applyBaseColorToMaterial(w.h.secondMaterial, technique,
                                             technique.lineColor, context.env)
    IN  [ w EXCEPT
            !.h.secondMaterial = material,
            !.objects = ApplyVisibility(w.objects, w.h.secondObjects, tileState, context,
                                      lastOpacity, material.opacity) ]

\* --------------------------------------------- ExtrudedPolygonTechniqueHandler
ExtrudedUpdaters(technique, fadingParams) ==
    LET fading == isFadingFeatureEnabled(fadingParams)
        u1 == PushIf(isExpr(technique.color) \/ isExpr(technique.opacity),
                     <<>>, "updateBaseColor")
        u2 == PushIf(fading, u1, "updateFadingParams")
        u3 == PushIf(technique.lit /\ isExpr(technique.emissive), u2, "updateEmissive")
        u4 == PushIf(HasLineWidth(technique) /\ fading, u3, "updateEdgeFadingParams")
    IN  PushIf(HasLineWidth(technique)
               /\ (isExpr(technique.lineColor) \/ isExpr(technique.opacity)),
               u4, "updateLineColor")

\* Faulty variant: the technique's value wins over a forced map view
ExtrusionAnimationEnabledUnforced(technique, aeh, env) ==
    IF ~aeh.defined THEN FALSE
    ELSE IF isDefined(technique.animateExtrusion)
         THEN getPropertyValue(technique.animateExtrusion, env) # 0
         ELSE aeh.enabled

\* extrusionAnimationEnabled as the constructor computes it from the
\* technique and mapView.animatedExtrusionHandler (aeh)
ExtrusionAnimationEnabled(technique, aeh, env) ==
    IF ~aeh.defined THEN FALSE
    ELSE IF isDefined(technique.animateExtrusion) /\ ~aeh.forceEnabled
         THEN getPropertyValue(technique.animateExtrusion, env) # 0
         ELSE aeh.enabled

\* Faulty variant: the constructor leaves the handler shareable when the
\* extrusion is animated
ExtrudedPolygonTechniqueHandlerShareable(key, tile, context, aeh) ==
    LET technique == Techniques[key]
        fadingParams == getPolygonFadingParams(technique, context.env)
        animated == ExtrusionAnimationEnabled(technique, aeh, context.env)
    IN  [GenericTechniqueHandler(key) EXCEPT
            !.mainMaterial = createMaterial(technique, context.env),
            !.fadingParams = fadingParams,
            !.hasSecond = HasLineWidth(technique),
            !.secondMaterial = IF HasLineWidth(technique)
                               THEN EdgeMaterial(fadingParams) ELSE NoMaterial,
            !.updaters = ExtrudedUpdaters(technique, fadingParams),
            !.extrusionAnimationEnabled = animated]

ExtrudedPolygonTechniqueHandler(key, tile, context, aeh) ==
    LET technique == Techniques[key]
        fadingParams == getPolygonFadingParams(technique, context.env)
        animated == ExtrusionAnimationEnabled(technique, aeh, context.env)
    IN  [GenericTechniqueHandler(key) EXCEPT
            !.mainMaterial = createMaterial(technique, context.env),
            !.fadingParams = fadingParams,
            !.hasSecond = HasLineWidth(technique),
            !.secondMaterial = IF HasLineWidth(technique)
                               THEN EdgeMaterial(fadingParams) ELSE NoMaterial,
            !.updaters = ExtrudedUpdaters(technique, fadingParams),
            !.extrusionAnimationEnabled = animated,
            !.isShareableAcrossTiles = ~animated]

updateEmissive(w, context) ==
    [w EXCEPT !.h.mainMaterial.emissive =
        getPropertyValue(Techniques[w.h.technique].emissive, context.env)]

\* --------------------------------------------------- SolidLineTechniqueHandler
\* Faulty variant: the lookup without the default of 1.0
getPixelToWorldNoDefault(context) == context.env.pixelToWorld

getPixelToWorld(context) ==
    IF context.env.pixelToWorld = NaN THEN 1000 ELSE context.env.pixelToWorld

getUnitFactor(h, context) ==
    IF h.metricUnitIsPixel THEN getPixelToWorld(context) ELSE 1000

updateLineWidth(h, context) ==
    [h EXCEPT !.mainMaterial.lineWidth =
        Half(Times(getPropertyValue(Techniques[h.technique].lineWidth, context.env),
                   getUnitFactor(h, context)))]

\* Faulty variant: the outline width with the factor of 0.5 of the other sizes
updateOutlineWidthHalved(h, context) ==
    [h EXCEPT !.mainMaterial.outlineWidth =
        Half(Times(getPropertyValue(Techniques[h.technique].outlineWidth, context.env),
                   getUnitFactor(h, context)))]

updateOutlineWidth(h, context) ==
    [h EXCEPT !.mainMaterial.outlineWidth =
        Times(getPropertyValue(Techniques[h.technique].outlineWidth, context.env),
              getUnitFactor(h, context))]

updateDashSize(h, context) ==
    [h EXCEPT !.mainMaterial.dashSize =
        Half(Times(getPropertyValue(Techniques[h.technique].dashSize, context.env),
                   getUnitFactor(h, context)))]

updateGapSize(h, context) ==
    [h EXCEPT !.mainMaterial.gapSize =
        Half(Times(getPropertyValue(Techniques[h.technique].gapSize, context.env),
                   getUnitFactor(h, context)))]

updateSecondaryColor(w, tileState, context) ==
    LET technique == Techniques[w.h.technique]
        lastOpacity == w.h.secondMaterial.opacity
        material == applyBaseColorToMaterial(w.h.secondMaterial, technique,
                                             technique.secondaryColor, context.env)
    IN  [ w EXCEPT
            !.h.secondMaterial = material,
            !.objects = ApplyVisibility(w.objects, w.h.secondObjects, tileState, context,
                                      lastOpacity, material.opacity) ]

\* Faulty variant: the collapse to 0 without the test of the opacity
updateSecondaryWidthAnyOpacity(h, context) ==
    LET techniqueLineWidth == h.mainMaterial.lineWidth
        techniqueSecondaryWidth ==
            Half(Times(getPropertyValue(Techniques[h.technique].secondaryWidth,
                                        context.env),
                       getUnitFactor(h, context)))
    IN  [h EXCEPT !.secondMaterial.lineWidth =
            IF techniqueSecondaryWidth # NaN /\ techniqueLineWidth # NaN
               /\ techniqueSecondaryWidth <= techniqueLineWidth
            THEN 0 ELSE techniqueSecondaryWidth]

updateSecondaryWidth(h, context) ==
    LET opacity == h.mainMaterial.opacity
        techniqueLineWidth == h.mainMaterial.lineWidth
        techniqueSecondaryWidth ==
            Half(Times(getPropertyValue(Techniques[h.technique].secondaryWidth,
                                        context.env),
                       getUnitFactor(h, context)))
    IN  [h EXCEPT !.secondMaterial.lineWidth =
            IF techniqueSecondaryWidth # NaN /\ techniqueLineWidth # NaN
               /\ techniqueSecondaryWidth <= techniqueLineWidth /\ opacity = 100
            THEN 0 ELSE techniqueSecondaryWidth]

\* Faulty variant: the width updaters are registered for expressions only
SolidLineUpdatersExprOnly(technique, fading) ==
    LET u1 == PushIf(isExpr(technique.color) \/ isExpr(technique.opacity),
                     <<>>, "updateBaseColor")
        u2 == PushIf(isExpr(technique.lineWidth), u1, "updateLineWidth")
        u3 == PushIf(isExpr(technique.outlineWidth), u2, "updateOutlineWidth")
        u4 == PushIf(isExpr(technique.dashSize), u3, "updateDashSize")
        u5 == PushIf(isExpr(technique.gapSize), u4, "updateGapSize")
        u6 == PushIf(fading, u5, "updateFadingParams")
        sec == isDefined(technique.secondaryWidth)
        u7 == PushIf(sec /\ (isExpr(technique.secondaryColor) \/ isExpr(technique.opacity)),
                     u6, "updateSecondaryColor")
        u8 == PushIf(sec /\ fading, u7, "updateSecondaryFadingParams")
    IN  PushIf(sec /\ (isExpr(technique.secondaryWidth) \/ isExpr(technique.secondaryColor)
                       \/ isExpr(technique.opacity)),
               u8, "updateSecondaryWidth")

SolidLineUpdaters(technique, fading) ==
    LET pixel == technique.metricUnit = "Pixel"
        u1 == PushIf(isExpr(technique.color) \/ isExpr(technique.opacity),
                     <<>>, "updateBaseColor")
        u2 == PushIf(isExpr(technique.lineWidth) \/ pixel, u1, "updateLineWidth")
        u3 == PushIf(isExpr(technique.outlineWidth) \/ pixel, u2, "updateOutlineWidth")
        u4 == PushIf(isExpr(technique.dashSize) \/ pixel, u3, "updateDashSize")
        u5 == PushIf(isExpr(technique.gapSize) \/ pixel, u4, "updateGapSize")
        u6 == PushIf(fading, u5, "updateFadingParams")
        sec == isDefined(technique.secondaryWidth)
        u7 == PushIf(sec /\ (isExpr(technique.secondaryColor) \/ isExpr(technique.opacity)),
                     u6, "updateSecondaryColor")
        u8 == PushIf(sec /\ fading, u7, "updateSecondaryFadingParams")
    IN  PushIf(sec /\ (isExpr(technique.secondaryWidth) \/ isExpr(technique.secondaryColor)
                       \/ isExpr(technique.opacity) \/ pixel),
               u8, "updateSecondaryWidth")

CallIf(cond, h, next) == IF cond THEN next ELSE h

\* Faulty variant: the constructor writes the clip size of its tile to the
\* material and gives up sharing
SolidLineTechniqueHandlerClipped(key, tile, context) ==
    LET technique == Techniques[key]
        fadingParam == getFadingParams(technique, context.env)
        h0 == [GenericTechniqueHandler(key) EXCEPT
                 !.mainMaterial =
                    [createMaterial(technique, context.env) EXCEPT
                        !.clipTileSize = IF technique.clipping /\ tiles[tile].planar
                                         THEN TileSize(tile) ELSE 0],
                 !.isShareableAcrossTiles = ~(technique.clipping /\ tiles[tile].planar),
                 !.metricUnitIsPixel = technique.metricUnit = "Pixel",
                 !.fadingParams.fadeNear = fadingParam.fadeNear,
                 !.fadingParams.fadeFar = fadingParam.fadeFar,
                 !.updaters = SolidLineUpdaters(technique,
                                                isFadingFeatureEnabled(fadingParam))]
        h1 == The({ CallIf(isDefined(technique.lineWidth), h,
                           updateLineWidth(h, context)) : h \in {h0} })
        h2 == The({ CallIf(isDefined(technique.outlineWidth), h,
                           updateOutlineWidth(h, context)) : h \in {h1} })
        h3 == The({ CallIf(isDefined(technique.dashSize), h,
                           updateDashSize(h, context)) : h \in {h2} })
        h4 == The({ CallIf(isDefined(technique.gapSize), h,
                           updateGapSize(h, context)) : h \in {h3} })
        secondaryColor == IF isDefined(technique.secondaryColor)
                          THEN technique.secondaryColor ELSE Const(100)
    IN  The({ IF isDefined(technique.secondaryWidth)
              THEN The({ updateSecondaryWidth(h5, context) :
                         h5 \in { [h EXCEPT
                                     !.hasSecond = TRUE,
                                     !.secondMaterial =
                                        applyBaseColorToMaterial(h.mainMaterial, technique,
                                                                 secondaryColor,
                                                                 context.env)] } })
              ELSE h : h \in {h4} })

SolidLineTechniqueHandler(key, tile, context) ==
    LET technique == Techniques[key]
        fadingParam == getFadingParams(technique, context.env)
        h0 == [GenericTechniqueHandler(key) EXCEPT
                 !.mainMaterial = createMaterial(technique, context.env),
                 !.metricUnitIsPixel = technique.metricUnit = "Pixel",
                 !.fadingParams.fadeNear = fadingParam.fadeNear,
                 !.fadingParams.fadeFar = fadingParam.fadeFar,
                 !.updaters = SolidLineUpdaters(technique,
                                                isFadingFeatureEnabled(fadingParam))]
        h1 == The({ CallIf(isDefined(technique.lineWidth), h,
                           updateLineWidth(h, context)) : h \in {h0} })
        h2 == The({ CallIf(isDefined(technique.outlineWidth), h,
                           updateOutlineWidth(h, context)) : h \in {h1} })
        h3 == The({ CallIf(isDefined(technique.dashSize), h,
                           updateDashSize(h, context)) : h \in {h2} })
        h4 == The({ CallIf(isDefined(technique.gapSize), h,
                           updateGapSize(h, context)) : h \in {h3} })
        secondaryColor == IF isDefined(technique.secondaryColor)
                          THEN technique.secondaryColor ELSE Const(100)
    IN  The({ IF isDefined(technique.secondaryWidth)
              THEN The({ updateSecondaryWidth(h5, context) :
                         h5 \in { [h EXCEPT
                                     !.hasSecond = TRUE,
                                     !.secondMaterial =
                                        applyBaseColorToMaterial(h.mainMaterial, technique,
                                                                 secondaryColor,
                                                                 context.env)] } })
              ELSE h : h \in {h4} })

\* ----------------------------------------------------- TerrainTechniqueHandler
\* Faulty variant: the handler keeps the default of the generic handler
TerrainTechniqueHandlerShareable(key, tile, context) ==
    [GenericTechniqueHandler(key) EXCEPT
        !.mainMaterial = createMaterial(Techniques[key], context.env)]

TerrainTechniqueHandler(key, tile, context) ==
    [GenericTechniqueHandler(key) EXCEPT
        !.mainMaterial = createMaterial(Techniques[key], context.env),
        !.isShareableAcrossTiles = FALSE]

\* ----------------------------------------------------------- techniqueHandlers
\* the registry: kind names that have a handler constructor
techniqueHandlers == {"fill", "extruded-polygon", "solid-line", "dashed-line", "terrain"}

Construct(key, tile, context, aeh) ==
    LET name == Techniques[key].name
    IN  CASE name = "fill" -> FillTechniqueHandler(key, tile, context)
          [] name = "extruded-polygon" ->
                ExtrudedPolygonTechniqueHandler(key, tile, context, aeh)
          [] name \in {"solid-line", "dashed-line"} ->
                SolidLineTechniqueHandler(key, tile, context)
          [] OTHER -> TerrainTechniqueHandler(key, tile, context)

\* ------------------------------------------------------------------- update
RunUpdater(name, w, tileState, context) ==
    CASE name = "updateBaseColor" -> updateBaseColor(w, tileState, context)
      [] name = "updateFadingParams" ->
            [w EXCEPT !.h.mainMaterial =
                updateFadingParams(w.h.mainMaterial, w.h.fadingParams, context)]
      [] name = "updateEdgeFadingParams" ->
            [w EXCEPT !.h.secondMaterial =
                updateEdgeFadingParams(w.h.secondMaterial, w.h.fadingParams, context)]
      [] name = "updateLineColor" -> updateLineColor(w, tileState, context)
      [] name = "updateEmissive" -> updateEmissive(w, context)
      [] name = "updateLineWidth" -> [w EXCEPT !.h = updateLineWidth(w.h, context)]
      [] name = "updateOutlineWidth" -> [w EXCEPT !.h = updateOutlineWidth(w.h, context)]
      [] name = "updateDashSize" -> [w EXCEPT !.h = updateDashSize(w.h, context)]
      [] name = "updateGapSize" -> [w EXCEPT !.h = updateGapSize(w.h, context)]
      [] name = "updateSecondaryColor" -> updateSecondaryColor(w, tileState, context)
      [] name = "updateSecondaryFadingParams" ->
            [w EXCEPT !.h.secondMaterial =
                updateFadingParams(w.h.secondMaterial, w.h.fadingParams, context)]
      [] OTHER -> [w EXCEPT !.h = updateSecondaryWidth(w.h, context)]

VisibleFlags(objs) == [i \in 1..Len(objs) |-> objs[i].visible]

ColourUpdaters == {"updateBaseColor", "updateLineColor", "updateSecondaryColor"}

\* What a colour updater did: the opacity of its material before and after,
\* and the visible flags it left.
Snapshot(name, before, after) ==
    LET main == name = "updateBaseColor"
    IN  [ updater |-> name,
          lastOpacity |-> IF main THEN before.h.mainMaterial.opacity
                          ELSE before.h.secondMaterial.opacity,
          opacity |-> IF main THEN after.h.mainMaterial.opacity
                      ELSE after.h.secondMaterial.opacity,
          visible |-> VisibleFlags(after.objects) ]

\* Faulty variant: the updaters run from the last registered to the first
RECURSIVE RunUpdatersLastFirst(_, _, _, _)
RunUpdatersLastFirst(updaters, w, tileState, context) ==
    IF updaters = <<>> THEN w
    ELSE LET name == updaters[Len(updaters)]
         IN  The({ RunUpdatersLastFirst(SubSeq(updaters, 1, Len(updaters) - 1),
                                        r, tileState, context) :
                   r \in { [RunUpdater(name, v, tileState, context)
                              EXCEPT !.ran = Append(v.ran, name)] : v \in {w} } })

\* for (const updater of this.updaters) updater(context); w.ran lists the
\* updaters in the order they ran, w.snaps what each colour updater did,
\* w.during the lastUpdateFrameNumber of the handler when each updater ran.
RECURSIVE RunUpdaters(_, _, _, _)
RunUpdaters(updaters, w, tileState, context) ==
    IF updaters = <<>> THEN w
    ELSE LET name == Head(updaters)
             Ran(v, r) == [r EXCEPT !.ran = Append(v.ran, name),
                                    !.during = Append(v.during,
                                                      v.h.lastUpdateFrameNumber),
                                    !.snaps = IF name \in ColourUpdaters
                                              THEN Append(v.snaps, Snapshot(name, v, r))
                                              ELSE v.snaps]
         IN  The({ RunUpdaters(Tail(updaters), next, tileState, context) :
                   next \in UNION { { Ran(v, r) :
                                        r \in {RunUpdater(name, v, tileState, context)} } :
                                    v \in {w} } })

\* Faulty variant: update without the test of the last applied frame number
updateEveryCall(h, objs, tileState, context) ==
    LET w == [h |-> h, objects |-> objs, ran |-> <<>>, snaps |-> <<>>, during |-> <<>>]
    IN  IF h.name = "terrain" THEN w
        ELSE RunUpdaters(h.updaters,
                         [w EXCEPT !.h.lastUpdateFrameNumber = context.frameNumber],
                         tileState, context)

\* GenericTechniqueHandler.update / TerrainTechniqueHandler.update
update(h, objs, tileState, context) ==
    LET w == [h |-> h, objects |-> objs, ran |-> <<>>, snaps |-> <<>>, during |-> <<>>]
    IN  IF h.name = "terrain" THEN w
        ELSE IF context.frameNumber = h.lastUpdateFrameNumber THEN w
        ELSE RunUpdaters(h.updaters,
                         [w EXCEPT !.h.lastUpdateFrameNumber = context.frameNumber],
                         tileState, context)

\* GenericTechniqueHandler.update when the updater at position failing throws
\* (the updaters open with assertions): the statements before the loop and
\* the updaters before the failing one have run, the rest of the loop has not.
updateThrows(h, objs, tileState, context, failing) ==
    LET w == [h |-> h, objects |-> objs, ran |-> <<>>, snaps |-> <<>>, during |-> <<>>]
    IN  RunUpdaters(SubSeq(h.updaters, 1, failing - 1),
                    [w EXCEPT !.h.lastUpdateFrameNumber = context.frameNumber],
                    tileState, context)

\* ------------------------------------------------------ TechniqueHandlerPool
canHandle(key) == Techniques[key].name \in techniqueHandlers

\* Faulty variants: every handler is stored; no handler is stored
PoolSetAlways(p, key, id, h) == [p EXCEPT ![key] = id]
PoolSetNever(p, key, id, h) == p

\* if (handler.isShareableAcrossTiles) this.pool.set(key, handler)
PoolSet(p, key, id, h) == IF h.isShareableAcrossTiles THEN [p EXCEPT ![key] = id] ELSE p

\* Faulty variant: no test of the constructor looked up in the registry
getTechniqueHandlerUnchecked(p, hs, key, tile, context, aeh) ==
    IF p[key] # 0
    THEN [pool |-> p, handlers |-> hs, handler |-> p[key],
          constructed |-> FALSE, error |-> FALSE]
    ELSE The({ [pool |-> PoolSet(p, key, Len(hs) + 1, h), handlers |-> Append(hs, h),
                handler |-> Len(hs) + 1, constructed |-> TRUE, error |-> FALSE] :
               h \in {Construct(key, tile, context, aeh)} })

\* result: the pool and the handler store after the call, the handler
\* returned (0 with error = TRUE when the call throws) and whether it was
\* constructed by this call
getTechniqueHandler(p, hs, key, tile, context, aeh) ==
    IF p[key] # 0
    THEN [pool |-> p, handlers |-> hs, handler |-> p[key],
          constructed |-> FALSE, error |-> FALSE]
    ELSE IF ~canHandle(key)
    THEN [pool |-> p, handlers |-> hs, handler |-> 0,
          constructed |-> FALSE, error |-> TRUE]
    ELSE LET id == Len(hs) + 1
         IN  The({ [pool |-> PoolSet(p, key, id, h), handlers |-> Append(hs, h),
                    handler |-> id, constructed |-> TRUE, error |-> FALSE] :
                   h \in {Construct(key, tile, context, aeh)} })

\* Faulty variant: reset leaves the pool as it is
resetNothing(p) == p

reset(p) == [key \in Keys |-> 0]

\* ------------------------------------------------------------- createObject
\* Faulty variant: the mesh is built with a material of its own
NewObjectOwnMaterial(tile, hid, role, group, userData) ==
    [ tile |-> tile, handler |-> 0, role |-> role, visible |-> TRUE,
      start |-> group.start, count |-> group.count, technique |-> group.technique,
      userData |-> userData, registered |-> FALSE,
      onBeforeRender |-> <<>> ]

\* A render object: the tile it was built for, the handler and the material
\* of that handler it draws with (role), and the span of the source buffers.
NewObject(tile, hid, role, group, userData) ==
    [ tile |-> tile, handler |-> hid, role |-> role, visible |-> TRUE,
      start |-> group.start, count |-> group.count, technique |-> group.technique,
      userData |-> userData, registered |-> FALSE,
      onBeforeRender |-> <<>> ]

\* TechniqueHandlerCommon.setupUserData
setupUserData(srcGeometry, technique) ==
    IF ~srcGeometry.objInfos THEN "none"
    ELSE IF technique.name = "terrain" THEN "none"
    ELSE IF technique.name = "solid-line" THEN "objInfos"
    ELSE "feature"

\* Faulty variant: the entry names the tile the handler was constructed for
EntryOfFirstTile(object, tile) == [object |-> object, tile |-> 1]

Entry(object, tile) == [object |-> object, tile |-> tile]

\* Each createObject takes the handler h (identity hid), the object store, the
\* record of the tile and gives them back with the ids of the objects returned.
FillCreateObject(h, hid, objs, tile, tileRec, srcGeometry, group) ==
    LET technique == Techniques[h.technique]
        main == Len(objs) + 1
        o1 == Append(objs, NewObject(tile, hid, "main", group,
                                     setupUserData(srcGeometry, technique)))
        h1 == [h EXCEPT !.mainObjects = Append(@, Entry(main, tile))]
    IN  IF h.hasSecond /\ srcGeometry.edgeIndex
        THEN [ h |-> [h1 EXCEPT !.secondObjects = Append(@, Entry(main + 1, tile))],
               objects |-> Append(o1, NewObject(tile, hid, "second", group, "none")),
               tile |-> tileRec, new |-> <<main, main + 1>> ]
        ELSE [ h |-> h1, objects |-> o1, tile |-> tileRec, new |-> <<main>> ]

isRenderDepthPrePassEnabled(technique) == technique.enableDepthPrePass

\* Faulty variant: a tile handler is created and added by every call
ExtrudedCreateObjectAddsAlways(h, hid, objs, tile, tileRec, srcGeometry, group) ==
    LET technique == Techniques[h.technique]
        main == Len(objs) + 1
        o1 == Append(objs, NewObject(tile, hid, "main", group,
                                     setupUserData(srcGeometry, technique)))
        h1 == [h EXCEPT !.mainObjects = Append(@, Entry(main, tile))]
        depth == isRenderDepthPrePassEnabled(technique)
        o2 == IF depth THEN Append(o1, NewObject(tile, hid, "depth", group, "none"))
              ELSE o1
        h2 == IF depth THEN [h1 EXCEPT !.mainObjects = Append(@, Entry(main + 1, tile))]
              ELSE h1
        new2 == IF depth THEN <<main, main + 1>> ELSE <<main>>
        edge == h.hasSecond /\ srcGeometry.edgeIndex
        o3 == IF edge THEN Append(o2, NewObject(tile, hid, "second", group, "none"))
              ELSE o2
        h3 == IF edge THEN [h2 EXCEPT !.secondObjects = Append(@, Entry(Len(o3), tile))]
              ELSE h2
        new3 == IF edge THEN Append(new2, Len(o3)) ELSE new2
    IN  IF h.extrusionAnimationEnabled
        THEN [ h |-> [h3 EXCEPT !.isShareableAcrossTiles = FALSE],
               objects |-> o3,
               tile |-> [tileRec EXCEPT !.animatedExtrusionTileHandler = TRUE,
                                       !.extrusionTileHandlersAdded = @ + 1],
               new |-> new3 ]
        ELSE [ h |-> h3, objects |-> o3, tile |-> tileRec, new |-> new3 ]

\* extrusionTileHandlersAdded counts the tile handlers created for the tile
\* and added to mapView.animatedExtrusionHandler
ExtrudedCreateObject(h, hid, objs, tile, tileRec, srcGeometry, group) ==
    LET technique == Techniques[h.technique]
        main == Len(objs) + 1
        o1 == Append(objs, NewObject(tile, hid, "main", group,
                                     setupUserData(srcGeometry, technique)))
        h1 == [h EXCEPT !.mainObjects = Append(@, Entry(main, tile))]
        depth == isRenderDepthPrePassEnabled(technique)
        o2 == IF depth THEN Append(o1, NewObject(tile, hid, "depth", group, "none"))
              ELSE o1
        h2 == IF depth THEN [h1 EXCEPT !.mainObjects = Append(@, Entry(main + 1, tile))]
              ELSE h1
        new2 == IF depth THEN <<main, main + 1>> ELSE <<main>>
        edge == h.hasSecond /\ srcGeometry.edgeIndex
        o3 == IF edge THEN Append(o2, NewObject(tile, hid, "second", group, "none"))
              ELSE o2
        h3 == IF edge THEN [h2 EXCEPT !.secondObjects = Append(@, Entry(Len(o3), tile))]
              ELSE h2
        new3 == IF edge THEN Append(new2, Len(o3)) ELSE new2
    IN  IF h.extrusionAnimationEnabled
        THEN [ h |-> [h3 EXCEPT !.isShareableAcrossTiles = FALSE],
               objects |-> o3,
               tile |-> IF tileRec.animatedExtrusionTileHandler THEN tileRec
                       ELSE [tileRec EXCEPT !.animatedExtrusionTileHandler = TRUE,
                                            !.extrusionTileHandlersAdded = @ + 1],
               new |-> new3 ]
        ELSE [ h |-> h3, objects |-> o3, tile |-> tileRec, new |-> new3 ]

\* object.onBeforeRender = chainCallbacks(object.onBeforeRender,
\* updateTileSizeForClipping.bind(this, material, clipTileSize)); a callback
\* is the material it writes and the clip size it writes
installTileSizeUpdaterIfNeeded(technique, tile, tileRec, object, material) ==
    IF technique.clipping /\ tileRec.planar
    THEN [object EXCEPT !.onBeforeRender =
            Append(@, [material |-> material, clipTileSize |-> TileSize(tile)])]
    ELSE object

SolidLineCreateObject(h, hid, objs, tile, tileRec, srcGeometry, group) ==
    LET technique == Techniques[h.technique]
        main == Len(objs) + 1
        h1 == [h EXCEPT !.mainObjects = Append(@, Entry(main, tile))]
        t1 == [tileRec EXCEPT !.objects = Append(@, main)]
        Installed(object, material) ==
            installTileSizeUpdaterIfNeeded(technique, tile, tileRec, object, material)
        MainObject(userData) ==
            Installed(Installed(NewObject(tile, hid, "main", group, userData), "main"),
                      "main")
    IN  IF h.hasSecond
        THEN [ h |-> [h1 EXCEPT !.secondObjects = Append(@, Entry(main, tile))],
               objects |-> Append(Append(objs, MainObject("none")),
                                  Installed(NewObject(tile, hid, "second", group, "none"),
                                            "second")),
               tile |-> [t1 EXCEPT !.objects = Append(@, main + 1)],
               new |-> <<main, main + 1>> ]
        ELSE [ h |-> h1,
               objects |-> Append(objs, MainObject(setupUserData(srcGeometry, technique))),
               tile |-> t1, new |-> <<main>> ]

\* updateTileSizeForClipping(material, clipTileSize), run for every callback
\* chained on an object when the object is about to be rendered
RECURSIVE updateTileSizeForClipping(_, _)
updateTileSizeForClipping(h, callbacks) ==
    IF callbacks = <<>> THEN h
    ELSE LET callback == Head(callbacks)
             next == IF callback.material = "main"
                     THEN [h EXCEPT !.mainMaterial.clipTileSize = callback.clipTileSize]
                     ELSE [h EXCEPT !.secondMaterial.clipTileSize = callback.clipTileSize]
         IN  updateTileSizeForClipping(next, Tail(callbacks))

TerrainCreateObject(h, hid, objs, tile, tileRec, srcGeometry, group) ==
    [ h |-> [h EXCEPT !.mainObjects = Append(@, Entry(Len(objs) + 1, tile))],
      objects |-> Append(objs, NewObject(tile, hid, "main", group,
                            IF srcGeometry.objInfos THEN "displacementMap" ELSE "none")),
      tile |-> tileRec, new |-> <<Len(objs) + 1>> ]

createObject(h, hid, objs, tile, tileRec, srcGeometry, group) ==
    CASE h.name = "fill" -> FillCreateObject(h, hid, objs, tile, tileRec, srcGeometry, group)
      [] h.name = "extruded-polygon" ->
            ExtrudedCreateObject(h, hid, objs, tile, tileRec, srcGeometry, group)
      [] h.name \in {"solid-line", "dashed-line"} ->
            SolidLineCreateObject(h, hid, objs, tile, tileRec, srcGeometry, group)
      [] OTHER -> TerrainCreateObject(h, hid, objs, tile, tileRec, srcGeometry, group)

\* ------------------------------------ TileGeometryCreator.createObjects
\* The constructor of the legacy path: a line technique has one, a text
\* technique has none.
getObjectConstructor(technique) ==
    IF technique.name = "line" THEN "LineSegments" ELSE "undefined"

\* createAllGeometries, the caller, passes the filter technique.enabled !== false
techniqueFilters == {"enabled"}
Accepts(techniqueFilter, en, techniqueIndex) ==
    techniqueFilter = "undefined" \/ en[techniqueIndex] # FALSE

\* Faulty variant: the test without the look at the offsets already created
SkippedWhateverCreated(group, offset, en, techniqueFilter) ==
    \/ en[group.technique] = FALSE
    \/ ~Accepts(techniqueFilter, en, group.technique)

\* Faulty variant: the test without the look at technique.enabled and the filter
SkippedOnlyCreated(group, offset, en, techniqueFilter) ==
    \E i \in 1..Len(group.createdOffsets) : group.createdOffsets[i] = offset

\* the test that makes createObjects pass over a group
Skipped(group, offset, en, techniqueFilter) ==
    \/ \E i \in 1..Len(group.createdOffsets) : group.createdOffsets[i] = offset
    \/ en[group.technique] = FALSE
    \/ ~Accepts(techniqueFilter, en, group.technique)

\* Faulty variant: the loop without the test of buffer contiguity
RECURSIVE MergeWhateverStart(_, _, _, _, _)
MergeWhateverStart(groups, groupIndex, start, count, techniqueIndex) ==
    IF groupIndex <= Len(groups) /\ groups[groupIndex].technique = techniqueIndex
    THEN MergeWhateverStart(groups, groupIndex + 1, start,
                            count + groups[groupIndex].count, techniqueIndex)
    ELSE [groupIndex |-> groupIndex, count |-> count]

\* compress consecutive groups: the index of the first group not absorbed
\* and the accumulated count
RECURSIVE Merge(_, _, _, _, _)
Merge(groups, groupIndex, start, count, techniqueIndex) ==
    IF groupIndex <= Len(groups) /\ groups[groupIndex].technique = techniqueIndex
    THEN IF start + count # groups[groupIndex].start
         THEN [groupIndex |-> groupIndex, count |-> count]
         ELSE Merge(groups, groupIndex + 1, start,
                    count + groups[groupIndex].count, techniqueIndex)
    ELSE [groupIndex |-> groupIndex, count |-> count]

\* createdOffsets.push(tile.offset) for the groups first..last
MarkCreated(groups, first, last, offset) ==
    [ k \in 1..Len(groups) |->
        IF first <= k /\ k <= last
        THEN [groups[k] EXCEPT !.createdOffsets = Append(@, offset)]
        ELSE groups[k] ]

\* TechniqueHandlerCommon.registerTileObject for the objects ids
registerTileObject(objs, ids) ==
    [ i \in 1..Len(objs) |->
        IF \E j \in 1..Len(ids) : ids[j] = i
        THEN [objs[i] EXCEPT !.registered = TRUE] ELSE objs[i] ]

\* The log entry of one span: what was called for it, the objects it gave,
\* the createdOffsets the span's first group had when the call was made, and
\* whether createMaterial was called for it on the legacy path.
Call(S, g, first, last, mergedGroup, kind, hid, constructed, new) ==
    [ geometry |-> g, first |-> first, last |-> last,
      marked |-> S.geometries[g].groups[first].createdOffsets,
      createdMaterial |-> kind = "legacy" /\ ~S.materials[mergedGroup.technique].defined,
      start |-> mergedGroup.start, count |-> mergedGroup.count,
      technique |-> mergedGroup.technique,
      call |-> kind, handler |-> hid, constructed |-> constructed, new |-> new ]

\* The branch of createObjects for a technique with a handler. S is the state
\* the call works on: pool, handlers, objects, the tile, the geometries, the
\* local arrays materials and techniqueHandlers, the number of times it asked
\* the pool for the handler of each technique, and the log of its calls.
HandlerPath(S, g, first, last, tile, mergedGroup, context, aeh) ==
    LET techniqueIndex == mergedGroup.technique
        cached == S.techniqueHandlers[techniqueIndex]
        Got == IF cached # 0
               THEN [pool |-> S.pool, handlers |-> S.handlers, handler |-> cached,
                     constructed |-> FALSE, error |-> FALSE]
               ELSE getTechniqueHandler(S.pool, S.handlers, techniqueIndex, tile,
                                        context, aeh)
        Created(r) == createObject(r.handlers[r.handler], r.handler, S.objects, tile,
                                   S.tile, S.geometries[g], mergedGroup)
        Pushed(r, c) ==
            LET t1 == [c.tile EXCEPT !.objects = @ \o c.new]
            IN  IF isDynamic(c.h)
                THEN [t1 EXCEPT !.dynamicTechniqueHandlers = Append(@, r.handler)]
                ELSE t1
        Done(r, c) ==
            [S EXCEPT !.pool = r.pool,
                      !.queries[techniqueIndex] = IF cached # 0 THEN @ ELSE @ + 1,
                      !.handlers = [r.handlers EXCEPT ![r.handler] = c.h],
                      !.objects = registerTileObject(c.objects, c.new),
                      !.tile = Pushed(r, c),
                      !.calls = Append(@, Call(S, g, first, last, mergedGroup,
                                               "createObject", r.handler,
                                               r.constructed, c.new))]
    IN  The(UNION { { Done(r, c) : c \in {Created(r)} } : r \in {Got} })

\* Faulty variant: the branch without the test of the object constructor
LegacyPathUnchecked(S, g, first, last, tile, mergedGroup, context) ==
    LET techniqueIndex == mergedGroup.technique
        technique == Techniques[techniqueIndex]
        material == IF ~S.materials[techniqueIndex].defined
                    THEN createMaterial(technique, context.env)
                    ELSE S.materials[techniqueIndex].material
        id == Len(S.objects) + 1
        object == NewObject(tile, 0, "legacy", mergedGroup,
                            setupUserData(S.geometries[g], technique))
    IN  [S EXCEPT !.materials[techniqueIndex] =
                        [defined |-> TRUE, material |-> material],
                  !.objects = registerTileObject(Append(@, object), <<id>>),
                  !.tile.objects = Append(@, id),
                  !.calls = Append(@, Call(S, g, first, last, mergedGroup, "legacy",
                                           0, FALSE, <<id>>))]

\* Faulty variant: a span without object constructor is taken out of the
\* created-offsets markers again
LegacyPathUnmarks(S, g, first, last, tile, mergedGroup, context) ==
    LET techniqueIndex == mergedGroup.technique
        technique == Techniques[techniqueIndex]
        material == IF ~S.materials[techniqueIndex].defined
                    THEN createMaterial(technique, context.env)
                    ELSE S.materials[techniqueIndex].material
        id == Len(S.objects) + 1
        object == NewObject(tile, 0, "legacy", mergedGroup,
                            setupUserData(S.geometries[g], technique))
        groups == S.geometries[g].groups
        unmarked == [ k \in 1..Len(groups) |->
                        IF first <= k /\ k <= last
                        THEN [groups[k] EXCEPT !.createdOffsets =
                                SubSeq(@, 1, Len(@) - 1)]
                        ELSE groups[k] ]
    IN  IF getObjectConstructor(technique) = "undefined"
        THEN [S EXCEPT !.geometries[g].groups = unmarked,
                       !.calls = Append(@, Call(S, g, first, last, mergedGroup, "none",
                                                0, FALSE, <<>>))]
        ELSE [S EXCEPT !.materials[techniqueIndex] =
                            [defined |-> TRUE, material |-> material],
                       !.objects = registerTileObject(Append(@, object), <<id>>),
                       !.tile.objects = Append(@, id),
                       !.calls = Append(@, Call(S, g, first, last, mergedGroup, "legacy",
                                                0, FALSE, <<id>>))]

\* Faulty variant: the branch without the array of materials
LegacyPathNoCache(S, g, first, last, tile, mergedGroup, context) ==
    LET techniqueIndex == mergedGroup.technique
        technique == Techniques[techniqueIndex]
        id == Len(S.objects) + 1
        object == NewObject(tile, 0, "legacy", mergedGroup,
                            setupUserData(S.geometries[g], technique))
    IN  IF getObjectConstructor(technique) = "undefined"
        THEN [S EXCEPT !.calls = Append(@, Call(S, g, first, last, mergedGroup, "none",
                                                0, FALSE, <<>>))]
        ELSE [S EXCEPT !.objects = registerTileObject(Append(@, object), <<id>>),
                       !.tile.objects = Append(@, id),
                       !.calls = Append(@, Call(S, g, first, last, mergedGroup, "legacy",
                                                0, FALSE, <<id>>))]

\* The branch of createObjects for a technique without a handler.
LegacyPath(S, g, first, last, tile, mergedGroup, context) ==
    LET techniqueIndex == mergedGroup.technique
        technique == Techniques[techniqueIndex]
        material == IF ~S.materials[techniqueIndex].defined
                    THEN createMaterial(technique, context.env)
                    ELSE S.materials[techniqueIndex].material
        id == Len(S.objects) + 1
        object == NewObject(tile, 0, "legacy", mergedGroup,
                            setupUserData(S.geometries[g], technique))
    IN  IF getObjectConstructor(technique) = "undefined"
        THEN [S EXCEPT !.calls = Append(@, Call(S, g, first, last, mergedGroup, "none",
                                                0, FALSE, <<>>))]
        ELSE [S EXCEPT !.materials[techniqueIndex] =
                            [defined |-> TRUE, material |-> material],
                       !.objects = registerTileObject(Append(@, object), <<id>>),
                       !.tile.objects = Append(@, id),
                       !.calls = Append(@, Call(S, g, first, last, mergedGroup, "legacy",
                                                0, FALSE, <<id>>))]

\* for (let groupIndex = 0; groupIndex < groupCount; ) of geometry g
RECURSIVE GroupLoop(_, _, _, _, _, _, _, _)
GroupLoop(S, g, groupIndex, tile, techniqueFilter, context, aeh, en) ==
    LET groups == S.geometries[g].groups
        offset == TileOffset(tile)
    IN  IF groupIndex > Len(groups) THEN S
        ELSE LET group == groups[groupIndex]
                 techniqueIndex == group.technique
                 m == Merge(groups, groupIndex + 1, group.start, group.count,
                            techniqueIndex)
                 last == m.groupIndex - 1
                 mergedGroup == [start |-> group.start, count |-> m.count,
                                 technique |-> techniqueIndex]
                 S1 == [S EXCEPT !.geometries[g].groups =
                                    MarkCreated(groups, groupIndex, last, offset)]
                 hasTechniqueHandler ==
                    S.techniqueHandlers[techniqueIndex] # 0 \/ canHandle(techniqueIndex)
                 Created(marked) ==
                    IF hasTechniqueHandler
                    THEN HandlerPath(marked, g, groupIndex, last, tile, mergedGroup,
                                     context, aeh)
                    ELSE LegacyPath(marked, g, groupIndex, last, tile, mergedGroup,
                                    context)
             IN  IF Skipped(group, offset, en, techniqueFilter)
                 THEN GroupLoop(S, g, groupIndex + 1, tile, techniqueFilter, context,
                                aeh, en)
                 ELSE The(UNION { { GroupLoop(S2, g, m.groupIndex, tile, techniqueFilter,
                                              context, aeh, en) :
                                    S2 \in {Created(marked)} } : marked \in {S1} })

\* for (const srcGeometry of decodedTile.geometries)
RECURSIVE GeometryLoop(_, _, _, _, _, _, _)
GeometryLoop(S, g, tile, techniqueFilter, context, aeh, en) ==
    IF g > Len(S.geometries) THEN S
    ELSE The({ GeometryLoop(next, g + 1, tile, techniqueFilter, context, aeh, en) :
               next \in {GroupLoop(S, g, 1, tile, techniqueFilter, context, aeh, en)} })

createObjects(p, hs, objs, tileRec, geos, tile, techniqueFilter, context, aeh, en) ==
    GeometryLoop([ pool |-> p, handlers |-> hs, objects |-> objs, tile |-> tileRec,
                   geometries |-> geos,
                   materials |-> [key \in Keys |-> [defined |-> FALSE]],
                   techniqueHandlers |-> [key \in Keys |-> 0],
                   queries |-> [key \in Keys |-> 0],
                   calls |-> <<>> ],
                 1, tile, techniqueFilter, context, aeh, en)

\* ------------------------------------------------------------ initial state
NoHist == [op |-> "none"]

NewTile ==
    [ frameNumLastVisible |-> 0 - 1, objects |-> <<>>,
      dynamicTechniqueHandlers |-> <<>>, animatedExtrusionTileHandler |-> FALSE,
      extrusionTileHandlersAdded |-> 0,
      planar |-> TRUE ]              \* tile.projection.type === ProjectionType.Planar

\* mapView.animatedExtrusionHandler: absent, or with its enabled and
\* forceEnabled flags
AnimatedExtrusionHandlers ==
    { [defined |-> FALSE, enabled |-> FALSE, forceEnabled |-> FALSE] }
    \cup [defined : {TRUE}, enabled : BOOLEAN, forceEnabled : BOOLEAN]

NoGeometry == [groups |-> <<>>, edgeIndex |-> FALSE, objInfos |-> FALSE]

InitCommon ==
    /\ pool = [key \in Keys |-> 0]
    /\ handlers = <<>>
    /\ objects = <<>>
    /\ tiles = [tile \in Tiles |-> NewTile]
    /\ returned = [key \in Keys |-> {}]
    /\ retired = {}
    /\ applied = <<>>
    /\ monotone = <<>>
    /\ hist = NoHist

Frames == 0..MaxFrame

\* History kept for every handler constructed by r, a getTechniqueHandler result.
AppliedAfter(r) ==
    IF r.constructed THEN Append(applied, {}) ELSE applied
MonotoneAfter(r) ==
    IF r.constructed THEN Append(monotone, TRUE) ELSE monotone

\* ------------------------------------------------- the pool: SpecPool
InitPool ==
    /\ InitCommon
    /\ animatedExtrusionHandler = [defined |-> TRUE, enabled |-> TRUE, forceEnabled |-> FALSE]
    /\ geometries = <<>>
    /\ enabled = [key \in Keys |-> TRUE]

\* pool.getTechniqueHandler(technique, tile, context)
GetTechniqueHandler(key, tile, env, frameNumber) ==
    \E r \in { getTechniqueHandler(pool, handlers, key, tile, Context(env, frameNumber),
                                 animatedExtrusionHandler) } :
        /\ pool[key] # 0 \/ ~canHandle(key) \/ Len(handlers) < MaxHandlers
        /\ pool' = r.pool
        /\ handlers' = r.handlers
        /\ returned' = IF r.error THEN returned
                       ELSE [returned EXCEPT ![key] =
                                @ \cup {[handler |-> r.handler, tile |-> tile]}]
        /\ applied' = AppliedAfter(r)
        /\ monotone' = MonotoneAfter(r)
        /\ hist' = [ op |-> "getTechniqueHandler", key |-> key, tile |-> tile,
                     handler |-> r.handler, constructed |-> r.constructed,
                     error |-> r.error, before |-> returned[key],
                     pooledBefore |-> pool[key] ]
        /\ UNCHANGED <<objects, tiles, animatedExtrusionHandler, geometries, enabled,
                       retired>>

\* pool.reset()
Reset ==
    /\ pool' = reset(pool)
    /\ retired' = retired \cup ({pool[key] : key \in Keys} \ {0})
    /\ returned' = [key \in Keys |-> {}]
    /\ hist' = [op |-> "reset"]
    /\ UNCHANGED <<handlers, objects, tiles, animatedExtrusionHandler, geometries,
                   enabled, applied, monotone>>

NextPool ==
    \/ \E key \in Keys, tile \in Tiles, env \in {Env(1), Env(2)} :
            GetTechniqueHandler(key, tile, env, 0)
    \/ Reset

SpecPool == InitPool /\ [][NextPool]_vars

\* ------------------------------------------- the update protocol: SpecUpdate
\* One handler, constructed for a technique that has a handler variant, the
\* objects it builds for the tiles and the update calls it receives.
InitUpdate ==
    /\ pool = [key \in Keys |-> 0]
    /\ animatedExtrusionHandler =
            [defined |-> TRUE, enabled |-> FALSE, forceEnabled |-> FALSE]
    /\ \E key \in {k \in Keys : canHandle(k)}, tile \in Tiles, env \in Envs :
            handlers = <<Construct(key, tile, Context(env, 0), animatedExtrusionHandler)>>
    /\ objects = <<>>
    /\ tiles = [tile \in Tiles |-> NewTile]
    /\ geometries = <<>>
    /\ enabled = [key \in Keys |-> TRUE]
    /\ returned = [key \in Keys |-> {}]
    /\ retired = {}
    /\ applied = <<{}>>
    /\ monotone = <<TRUE>>
    /\ hist = NoHist

\* handler.createObject(tile, srcGeometry, group) for a one-group geometry
CreateObject(hid, tile, edgeIndex) ==
    LET srcGeometry == [NoGeometry EXCEPT !.edgeIndex = edgeIndex]
        group == [start |-> 0, count |-> 1, technique |-> handlers[hid].technique]
    IN  \E r \in { createObject(handlers[hid], hid, objects, tile, tiles[tile],
                          srcGeometry, group) } :
        /\ Len(objects) < MaxObjects
        /\ handlers' = [handlers EXCEPT ![hid] = r.h]
        /\ objects' = r.objects
        /\ tiles' = [tiles EXCEPT ![tile] = r.tile]
        /\ hist' = [op |-> "createObject", handler |-> hid, tile |-> tile, new |-> r.new]
        /\ UNCHANGED <<pool, animatedExtrusionHandler, geometries, enabled, returned,
                       retired, applied, monotone>>

\* The view marks a tile visible in a later frame than the tile's last.
MarkVisible(tile, frameNumber) ==
    /\ tiles[tile].frameNumLastVisible < frameNumber
    /\ tiles' = [tiles EXCEPT ![tile].frameNumLastVisible = frameNumber]
    /\ hist' = [op |-> "visible", tile |-> tile]
    /\ UNCHANGED <<pool, handlers, objects, animatedExtrusionHandler, geometries,
                   enabled, returned, retired, applied, monotone>>

\* handler.update(context) in the render loop, whose frame numbers never
\* decrease
Update(hid, env, frameNumber) ==
    \E r \in { update(handlers[hid], objects, tiles, Context(env, frameNumber)) } :
        /\ frameNumber >= handlers[hid].lastUpdateFrameNumber
        /\ handlers' = [handlers EXCEPT ![hid] = r.h]
        /\ objects' = r.objects
        /\ hist' = [ op |-> "update", handler |-> hid, frameNumber |-> frameNumber,
                     env |-> env, ran |-> r.ran, snaps |-> r.snaps,
                     during |-> r.during,
                     lastBefore |-> handlers[hid].lastUpdateFrameNumber ]
        /\ UNCHANGED <<pool, tiles, animatedExtrusionHandler, geometries, enabled,
                       returned, retired, applied, monotone>>

NextUpdate ==
    \/ \E hid \in 1..Len(handlers), tile \in Tiles, edgeIndex \in BOOLEAN :
            CreateObject(hid, tile, edgeIndex)
    \/ \E tile \in Tiles, frameNumber \in Frames : MarkVisible(tile, frameNumber)
    \/ \E hid \in 1..Len(handlers), env \in Envs, frameNumber \in Frames :
            Update(hid, env, frameNumber)

SpecUpdate == InitUpdate /\ [][NextUpdate]_vars

\* ----------------------------------------- frame deduplication: SpecFrames
\* handler.update(context) with frame numbers in any order, and the record of
\* the frame numbers the updaters ran for.
UpdateAnyFrame(hid, env, frameNumber) ==
    \E r \in { update(handlers[hid], objects, tiles, Context(env, frameNumber)) } :
        /\ handlers' = [handlers EXCEPT ![hid] = r.h]
        /\ objects' = r.objects
        /\ applied' = IF Len(r.ran) > 0
                      THEN [applied EXCEPT ![hid] = @ \cup {frameNumber}]
                      ELSE applied
        /\ monotone' = [monotone EXCEPT ![hid] =
                            @ /\ frameNumber >= handlers[hid].lastUpdateFrameNumber]
        /\ hist' = [ op |-> "update", handler |-> hid, frameNumber |-> frameNumber,
                     env |-> env, ran |-> r.ran,
                     appliedBefore |-> applied[hid],
                     lastBefore |-> handlers[hid].lastUpdateFrameNumber ]
        /\ UNCHANGED <<pool, tiles, animatedExtrusionHandler, geometries, enabled,
                       returned, retired>>

NextFrames ==
    \E hid \in 1..Len(handlers), env \in Envs, frameNumber \in Frames :
        UpdateAnyFrame(hid, env, frameNumber)

SpecFrames == InitUpdate /\ [][NextFrames]_vars

\* ------------------------------------------------ line widths: SpecLine
\* One solid/dashed-line handler, the environment it was constructed with, the
\* objects it builds and the update calls it receives.
LineKeys ==
    { key \in DOMAIN Techniques : Techniques[key].name \in {"solid-line", "dashed-line"} }

InitLine ==
    /\ pool = [key \in Keys |-> 0]
    /\ animatedExtrusionHandler =
            [defined |-> TRUE, enabled |-> FALSE, forceEnabled |-> FALSE]
    /\ \E key \in LineKeys, tile \in Tiles, env \in Envs :
            /\ handlers = <<SolidLineTechniqueHandler(key, tile, Context(env, 0))>>
            /\ hist = [op |-> "construct", handler |-> 1, env |-> env]
    /\ objects = <<>>
    /\ tiles = [tile \in Tiles |-> NewTile]
    /\ geometries = <<>>
    /\ enabled = [key \in Keys |-> TRUE]
    /\ returned = [key \in Keys |-> {}]
    /\ retired = {}
    /\ applied = <<{}>>
    /\ monotone = <<TRUE>>

SpecLine == InitLine /\ [][NextUpdate]_vars

\* ------------------------------------------ failing updaters: SpecThrow
\* One handler and its update calls in the render loop; an update call ends
\* normally or with the exception of one of its updaters, which leaves
\* update at once.
UpdateThrows(hid, env, frameNumber, failing) ==
    \E r \in { updateThrows(handlers[hid], objects, tiles, Context(env, frameNumber),
                            failing) } :
        /\ handlers[hid].name # "terrain"
        /\ frameNumber > handlers[hid].lastUpdateFrameNumber
        /\ handlers' = [handlers EXCEPT ![hid] = r.h]
        /\ objects' = r.objects
        /\ hist' = [ op |-> "updateThrows", handler |-> hid, frameNumber |-> frameNumber,
                     env |-> env, ran |-> r.ran, failed |-> handlers[hid].updaters[failing],
                     lastBefore |-> handlers[hid].lastUpdateFrameNumber ]
        /\ UNCHANGED <<pool, tiles, animatedExtrusionHandler, geometries, enabled,
                       returned, retired, applied, monotone>>

NextThrow ==
    \/ \E hid \in 1..Len(handlers), env \in Envs, frameNumber \in Frames :
            Update(hid, env, frameNumber)
    \/ \E hid \in 1..Len(handlers), env \in Envs, frameNumber \in Frames :
         \E failing \in 1..Len(handlers[hid].updaters) :
            UpdateThrows(hid, env, frameNumber, failing)

SpecThrow == InitUpdate /\ [][NextThrow]_vars

\* ------------------------------------------ visible flags: SpecFlags
\* One fill handler whose base colour is interpolated (it registers
\* updateBaseColor), the objects it builds, and update calls over one frame
\* more than SpecUpdate has, so that the opacity can change three times.
ColourKeys ==
    { key \in Keys :
        Techniques[key].name = "fill" /\ isExpr(Techniques[key].color) }

FlagFrames == 0..(MaxFrame + 1)

InitFlags ==
    /\ pool = [key \in Keys |-> 0]
    /\ animatedExtrusionHandler =
            [defined |-> TRUE, enabled |-> FALSE, forceEnabled |-> FALSE]
    /\ \E key \in ColourKeys, env \in Envs :
            handlers = <<Construct(key, 1, Context(env, 0), animatedExtrusionHandler)>>
    /\ objects = <<>>
    /\ tiles = [tile \in Tiles |-> NewTile]
    /\ geometries = <<>>
    /\ enabled = [key \in Keys |-> TRUE]
    /\ returned = [key \in Keys |-> {}]
    /\ retired = {}
    /\ applied = <<{}>>
    /\ monotone = <<TRUE>>
    /\ hist = NoHist

NextFlags ==
    \/ \E tile \in Tiles, edgeIndex \in BOOLEAN : CreateObject(1, tile, edgeIndex)
    \/ \E tile \in Tiles, frameNumber \in FlagFrames : MarkVisible(tile, frameNumber)
    \/ \E env \in Envs, frameNumber \in FlagFrames : Update(1, env, frameNumber)

SpecFlags == InitFlags /\ [][NextFlags]_vars

\* ------------------------------------ extrusion animation: SpecExtruded
\* The pool asked for extruded-polygon techniques under every setting of the
\* map view's animated-extrusion handler; the handler returned builds an
\* object for the tile it was asked for, as createObjects has it do.
ExtrudedKeys ==
    { key \in DOMAIN Techniques : Techniques[key].name = "extruded-polygon" }

InitExtruded ==
    /\ pool = [key \in DOMAIN Techniques |-> 0]
    /\ handlers = <<>>
    /\ objects = <<>>
    /\ tiles = [tile \in Tiles |-> NewTile]
    /\ animatedExtrusionHandler \in AnimatedExtrusionHandlers
    /\ geometries = <<>>
    /\ enabled = [key \in Keys |-> TRUE]
    /\ returned = [key \in DOMAIN Techniques |-> {}]
    /\ retired = {}
    /\ applied = <<>>
    /\ monotone = <<>>
    /\ hist = NoHist

NextExtruded ==
    \/ \E key \in ExtrudedKeys, tile \in Tiles :
            GetTechniqueHandler(key, tile, Env(1), 0)
    \/ /\ hist.op = "getTechniqueHandler"
       /\ \E edgeIndex \in BOOLEAN : CreateObject(hist.handler, hist.tile, edgeIndex)

SpecExtruded == InitExtruded /\ [][NextExtruded]_vars

\* ------------------------------------------- pooled handlers: SpecShare
\* The map view enables the extrusion animation or forces it off; the pool is
\* asked for an extruded-polygon technique that asks for the animation and for
\* one that switches it off; the handler returned builds an object for the
\* tile it was asked for and, when the pool holds it, is updated for the
\* frame that shows the object.
ShareKeys ==
    { key \in ExtrudedKeys : isDefined(Techniques[key].animateExtrusion) }

InitShare ==
    /\ InitExtruded
    /\ animatedExtrusionHandler.defined
    /\ animatedExtrusionHandler.enabled # animatedExtrusionHandler.forceEnabled

NextShare ==
    \/ \E key \in ShareKeys, tile \in Tiles :
            GetTechniqueHandler(key, tile, Env(1), 0)
    \/ /\ hist.op = "getTechniqueHandler"
       /\ CreateObject(hist.handler, hist.tile, FALSE)
    \/ /\ hist.op = "createObject"
       /\ \E key \in ShareKeys, frameNumber \in Frames :
            /\ pool[key] = hist.handler
            /\ Update(hist.handler, Env(2), frameNumber)

SpecShare == InitShare /\ [][NextShare]_vars

\* ------------------------------------------------ clipping: SpecClip
\* The pool has been asked for a line technique on a planar or a spherical
\* tile and has constructed the handler; the pool is asked for the technique
\* again, the handler returned builds an object for the tile, the handler is
\* updated and objects are rendered, which runs their onBeforeRender
\* callbacks.
Render(o) ==
    /\ objects[o].handler # 0
    /\ objects[o].onBeforeRender # <<>>
    /\ handlers' = [handlers EXCEPT ![objects[o].handler] =
                        updateTileSizeForClipping(@, objects[o].onBeforeRender)]
    /\ hist' = [op |-> "render", object |-> o]
    /\ UNCHANGED <<pool, objects, tiles, animatedExtrusionHandler, geometries, enabled,
                   returned, retired, applied, monotone>>

\* a line technique that clips and the line techniques without secondary line
ClipKeys ==
    { key \in LineKeys :
        Techniques[key].clipping \/ ~isDefined(Techniques[key].secondaryWidth) }

InitClip ==
    /\ animatedExtrusionHandler =
            [defined |-> TRUE, enabled |-> FALSE, forceEnabled |-> FALSE]
    /\ \E planar \in BOOLEAN :
            tiles = [tile \in Tiles |-> [NewTile EXCEPT !.planar = planar]]
    /\ \E key \in ClipKeys, tile \in Tiles :
         \E r \in { getTechniqueHandler([k \in DOMAIN Techniques |-> 0], <<>>, key, tile,
                                        Context(Env(1), 0), animatedExtrusionHandler) } :
            /\ pool = r.pool
            /\ handlers = r.handlers
            /\ returned = [k \in DOMAIN Techniques |->
                             IF k = key THEN {[handler |-> r.handler, tile |-> tile]}
                             ELSE {}]
            /\ hist = [ op |-> "getTechniqueHandler", key |-> key, tile |-> tile,
                        handler |-> r.handler, constructed |-> r.constructed,
                        error |-> r.error, before |-> {}, pooledBefore |-> 0 ]
    /\ objects = <<>>
    /\ geometries = <<>>
    /\ enabled = [key \in Keys |-> TRUE]
    /\ retired = {}
    /\ applied = <<{}>>
    /\ monotone = <<TRUE>>

NextClip ==
    \/ \E tile \in Tiles : GetTechniqueHandler(handlers[1].technique, tile, Env(1), 0)
    \/ /\ hist.op = "getTechniqueHandler"
       /\ CreateObject(hist.handler, hist.tile, FALSE)
    \/ \E hid \in 1..Len(handlers), env \in {Env(1), Env(2)}, frameNumber \in Frames :
            Update(hid, env, frameNumber)
    \/ \E o \in 1..Len(objects) : Render(o)

SpecClip == InitClip /\ [][NextClip]_vars

\* ------------------------------------------- createObjects: SpecCreate
\* The decoded tile after initDecodedTile: up to MaxGroups groups in one or
\* two geometries, group k with count k, following its predecessor directly or
\* (only when it has the predecessor's technique) after a gap of one.
GroupTechniques == {1, 3, 4, 5, 6}

NewGroup(start, count, technique) ==
    [start |-> start, count |-> count, technique |-> technique, createdOffsets |-> <<>>]

DecodedGroups(techs, joined) ==
    [ k \in 1..Len(techs) |->
        NewGroup(((k - 1) * k) \div 2 + Cardinality({m \in 2..k : ~joined[m]}),
                 k, techs[k]) ]

DecodedGeometries(groups, split) ==
    IF split = Len(groups)
    THEN << [groups |-> groups, edgeIndex |-> TRUE, objInfos |-> TRUE] >>
    ELSE << [groups |-> SubSeq(groups, 1, split), edgeIndex |-> TRUE, objInfos |-> TRUE],
            [groups |-> SubSeq(groups, split + 1, Len(groups)),
             edgeIndex |-> FALSE, objInfos |-> FALSE] >>

InitCreate ==
    /\ pool = [key \in Keys |-> 0]
    /\ handlers = <<>>
    /\ objects = <<>>
    /\ tiles = [tile \in Tiles |-> NewTile]
    /\ animatedExtrusionHandler =
            [defined |-> TRUE, enabled |-> FALSE, forceEnabled |-> FALSE]
    /\ \E n \in 1..MaxGroups :
         \E techs \in [1..n -> GroupTechniques], joined \in [1..n -> BOOLEAN],
            split \in 1..n :
            /\ joined[1]
            /\ \A k \in 2..n : techs[k] # techs[k - 1] => joined[k]
            /\ geometries = DecodedGeometries(DecodedGroups(techs, joined), split)
    /\ enabled \in { [key \in Keys |-> TRUE], [key \in Keys |-> key # 1] }
    /\ returned = [key \in Keys |-> {}]
    /\ retired = {}
    /\ applied = <<>>
    /\ monotone = <<>>
    /\ hist = [op |-> "none", processed |-> {}]

\* createObjects(tile, decodedTile, techniqueFilter)
CreateObjects(tile, techniqueFilter) ==
    \E r \in { createObjects(pool, handlers, objects, tiles[tile], geometries, tile,
                           techniqueFilter, Context(Env(1), 0),
                           animatedExtrusionHandler, enabled) } :
        /\ pool' = r.pool
        /\ handlers' = r.handlers
        /\ objects' = r.objects
        /\ tiles' = [tiles EXCEPT ![tile] = r.tile]
        /\ geometries' = r.geometries
        /\ hist' = [ op |-> "createObjects", tile |-> tile, offset |-> TileOffset(tile),
                     calls |-> r.calls, queries |-> r.queries,
                     objectsBefore |-> Len(objects),
                     tileObjectsBefore |-> Len(tiles[tile].objects),
                     dynamicBefore |-> Len(tiles[tile].dynamicTechniqueHandlers),
                     processedBefore |-> hist.processed,
                     processed |-> hist.processed \cup {TileOffset(tile)} ]
        /\ UNCHANGED <<animatedExtrusionHandler, enabled, returned, retired, applied,
                       monotone>>

NextCreate ==
    \E tile \in Tiles, techniqueFilter \in techniqueFilters :
        CreateObjects(tile, techniqueFilter)

SpecCreate == InitCreate /\ [][NextCreate]_vars

\* ------------------------------------------- initDecodedTile: SpecKinds
\* technique.kind as the style gives it: absent, one kind, an array of kinds
\* (possibly empty), or a value of another type
Kind(type, values) == [type |-> type, values |-> values]

KindNames == {"area", "line", "building"}

\* the kind of each technique of the decoded tile
TechniqueKinds ==
    << Kind("string", {"area"}), Kind("array", {"building", "area"}),
       Kind("array", {"line"}), Kind("undefined", {}), Kind("array", {}),
       Kind("string", {"building"}), Kind("other", {}), Kind("string", {"line"}) >>

\* enabledKinds / disabledKinds: undefined or a GeometryKindSet
NoKinds == [defined |-> FALSE, kinds |-> {}]
KindSets == {NoKinds} \cup { [defined |-> TRUE, kinds |-> K] : K \in SUBSET KindNames }

\* GeometryKindSet.hasOrIntersects: the set has the kind, or shares a kind
\* with the set of kinds
hasOrIntersects(kindSet, kind) == kindSet.kinds \cap kind.values # {}

\* Faulty variant: the flags are decided anew by every call
initDecodedTileAnew(en, geos, enabledKinds, disabledKinds) ==
    LET Decided(key) ==
            LET given == TechniqueKinds[key]
                kind == IF given.type \in {"undefined", "other"}
                        THEN Kind("undefined", {})
                        ELSE IF given.type = "array" THEN Kind("set", given.values)
                        ELSE given
            IN  IF kind.type = "undefined" \/ (kind.type = "set" /\ kind.values = {})
                THEN TRUE
                ELSE \/ ~(disabledKinds.defined /\ hasOrIntersects(disabledKinds, kind))
                     \/ (enabledKinds.defined /\ hasOrIntersects(enabledKinds, kind))
    IN  [ enabled |-> [ key \in Keys |-> Decided(key) ],
          geometries |->
            [ g \in 1..Len(geos) |->
                [geos[g] EXCEPT !.groups =
                    [ k \in 1..Len(geos[g].groups) |->
                        [geos[g].groups[k] EXCEPT !.createdOffsets = <<>>] ]] ] ]

\* initDecodedTile(decodedTile, enabledKinds, disabledKinds); en holds the
\* enabled flag of the techniques that have one
initDecodedTile(en, geos, enabledKinds, disabledKinds) ==
    LET Decided(key) ==
            LET given == TechniqueKinds[key]
                kind == IF given.type \in {"undefined", "other"}
                        THEN Kind("undefined", {})
                        ELSE IF given.type = "array" THEN Kind("set", given.values)
                        ELSE given
            IN  IF kind.type = "undefined" \/ (kind.type = "set" /\ kind.values = {})
                THEN TRUE
                ELSE \/ ~(disabledKinds.defined /\ hasOrIntersects(disabledKinds, kind))
                     \/ (enabledKinds.defined /\ hasOrIntersects(enabledKinds, kind))
    IN  [ enabled |-> [ key \in Keys |->
                         IF key \in DOMAIN en THEN en[key] ELSE Decided(key) ],
          geometries |->
            [ g \in 1..Len(geos) |->
                [geos[g] EXCEPT !.groups =
                    [ k \in 1..Len(geos[g].groups) |->
                        [geos[g].groups[k] EXCEPT !.createdOffsets = <<>>] ]] ] ]

InitDecodedTile(enabledKinds, disabledKinds) ==
    \E r \in { initDecodedTile(enabled, geometries, enabledKinds, disabledKinds) } :
        /\ enabled' = r.enabled
        /\ geometries' = r.geometries
        /\ hist' = [ op |-> "initDecodedTile", enabledKinds |-> enabledKinds,
                     disabledKinds |-> disabledKinds, enabledBefore |-> enabled,
                     geometriesBefore |-> geometries, processed |-> hist.processed ]
        /\ UNCHANGED <<pool, handlers, objects, tiles, animatedExtrusionHandler,
                       returned, retired, applied, monotone>>

\* The decoded tile as the decoder gives it: the style has set the enabled
\* flag of none, one or two of the techniques, no group has createdOffsets.
ThemeEnabled == UNION { [D -> BOOLEAN] : D \in SUBSET {1, 3} }

InitKinds ==
    /\ pool = [key \in Keys |-> 0]
    /\ handlers = <<>>
    /\ objects = <<>>
    /\ tiles = [tile \in Tiles |-> NewTile]
    /\ animatedExtrusionHandler =
            [defined |-> TRUE, enabled |-> FALSE, forceEnabled |-> FALSE]
    /\ geometries = DecodedGeometries(DecodedGroups(<<1, 3>>, <<TRUE, TRUE>>), 2)
    /\ enabled \in ThemeEnabled
    /\ returned = [key \in Keys |-> {}]
    /\ retired = {}
    /\ applied = <<>>
    /\ monotone = <<>>
    /\ hist = [op |-> "none", processed |-> {}]

NextKinds ==
    \E enabledKinds \in KindSets, disabledKinds \in KindSets :
        InitDecodedTile(enabledKinds, disabledKinds)

SpecKinds == InitKinds /\ [][NextKinds]_vars

\* ------------------------------------- repeated initialisation: SpecReinit
\* The decoded tile after initDecodedTile; createObjects is called for the
\* tiles that show it and, after such a call, initDecodedTile (through
\* processTechniques) is called again, with the kinds the view has then.
NextReinit ==
    \/ \E tile \in Tiles, techniqueFilter \in techniqueFilters :
            /\ Len(objects) <= MaxObjects
            /\ CreateObjects(tile, techniqueFilter)
    \/ /\ hist.op = "createObjects"
       /\ \E disabledKinds \in {NoKinds, [defined |-> TRUE, kinds |-> {"line"}]} :
            InitDecodedTile(NoKinds, disabledKinds)

SpecReinit == InitCreate /\ [][NextReinit]_vars

\* ---------------------------------------------- tile disposal: SpecDispose
\* The disposal of a tile releases what the tile registered: the entries of
\* the tile leave the lists of every handler, the tile's own lists are
\* emptied; the pool is not touched.
ReleaseEntries(entries, tile) == SelectSeq(entries, LAMBDA entry : entry.tile # tile)

disposeTile(hs, tile) ==
    [ hid \in 1..Len(hs) |->
        [hs[hid] EXCEPT !.mainObjects = ReleaseEntries(@, tile),
                        !.secondObjects = ReleaseEntries(@, tile)] ]

DisposeTile(tile) ==
    /\ tiles[tile].objects # <<>>
    /\ handlers' = disposeTile(handlers, tile)
    /\ tiles' = [tiles EXCEPT ![tile] = NewTile]
    /\ hist' = [ op |-> "dispose", tile |-> tile, poolBefore |-> pool,
                 processed |-> hist.processed ]
    /\ UNCHANGED <<pool, objects, animatedExtrusionHandler, geometries, enabled,
                   returned, retired, applied, monotone>>

NextDispose ==
    \/ NextCreate
    \/ \E tile \in Tiles : DisposeTile(tile)

SpecDispose == InitCreate /\ [][NextDispose]_vars

\* =================================================================== claims
LastIsGet == hist.op = "getTechniqueHandler" /\ ~hist.error
LastIsUpdate == hist.op = "update"
Shareable(hid) == handlers[hid].isShareableAcrossTiles
HandlersOf(entries) == {e.handler : e \in entries}

\* C1: with no reset in between, a request for a key whose earlier returned
\* handler is shareable returns that same handler, and a request that returns
\* a non-shareable handler returns one constructed by this very request,
\* distinct from every handler returned before (for this or another key).
C1_SharedSameElseFresh ==
    LastIsGet =>
        /\ \A h \in HandlersOf(hist.before) : Shareable(h) => hist.handler = h
        /\ ~Shareable(hist.handler) =>
                /\ hist.constructed
                /\ hist.handler \notin HandlersOf(hist.before)
                /\ \A key \in Keys \ {hist.key} :
                        hist.handler \notin HandlersOf(returned[key])
                /\ hist.handler \notin retired

\* a second tile requested a non-shareable technique and got its own handler
C1_Witness ==
    /\ LastIsGet
    /\ ~Shareable(hist.handler)
    /\ \E e \in hist.before : e.tile # hist.tile /\ ~Shareable(e.handler)

\* C2: a handler constructed by getTechniqueHandler is in the pool under its
\* key iff it reports shareable, and no pooled handler reports non-shareable.
C2_PooledIffShareable ==
    /\ LastIsGet /\ hist.constructed =>
            (pool[hist.key] = hist.handler <=> Shareable(hist.handler))
    /\ \A key \in Keys : pool[key] # 0 => Shareable(pool[key])

C2_Witness ==
    /\ LastIsGet /\ hist.constructed
    /\ Shareable(hist.handler)
    /\ \E h \in 1..Len(handlers) : ~Shareable(h) /\ \A key \in Keys : pool[key] # h

\* C3: after reset the pool is empty, and the first request for a key that
\* was shared before the reset constructs a handler that is none of those
\* the reset dropped.
C3_ResetGivesNewHandlers ==
    /\ hist.op = "reset" => \A key \in Keys : pool[key] = 0
    /\ LastIsGet => hist.handler \notin retired
    /\ ( /\ LastIsGet
         /\ hist.before = {}
         /\ \E h \in retired : handlers[h].technique = hist.key )
       => hist.constructed

C3_Witness ==
    /\ LastIsGet /\ hist.constructed
    /\ \E h \in retired : handlers[h].technique = hist.key /\ h # hist.handler

\* C4: an update call with the frame number of the last applied update runs
\* no updater and leaves the handler, its materials and the objects unchanged.
C4_SameFrameNoop ==
    [][ ( /\ hist'.op = "update"
          /\ hist'.frameNumber = handlers[hist'.handler].lastUpdateFrameNumber )
        => ( /\ hist'.ran = <<>>
             /\ handlers' = handlers
             /\ objects' = objects ) ]_vars

\* the repeated call came with an environment that gives another opacity,
\* and an object of a tile visible in that frame is registered
C4_Witness ==
    /\ LastIsUpdate
    /\ hist.frameNumber = hist.lastBefore
    /\ LET h == handlers[hist.handler]
           technique == Techniques[h.technique]
       IN  /\ h.updaters # <<>> /\ h.updaters[1] = "updateBaseColor"
           /\ BaseOpacity(technique, technique.color, hist.env) # h.mainMaterial.opacity
           /\ \E i \in 1..Len(h.mainObjects) :
                tiles[h.mainObjects[i].tile].frameNumLastVisible = hist.frameNumber

\* C5: an update call with a frame number above the last one passed runs
\* every registered updater exactly once, in the order of registration.
C5_IncreasingRunsAllInOrder ==
    (LastIsUpdate /\ hist.frameNumber > hist.lastBefore)
        => hist.ran = handlers[hist.handler].updaters

\* the second of two calls with increasing frame numbers, several updaters
C5_Witness ==
    /\ LastIsUpdate
    /\ hist.lastBefore >= 0 /\ hist.frameNumber > hist.lastBefore
    /\ Len(hist.ran) >= 3

\* C6 as claimed: whatever the order of the frame numbers, the updaters never
\* run for a frame number they already ran for.
C6_OncePerFrameAnyOrder ==
    (LastIsUpdate /\ hist.ran # <<>>) => hist.frameNumber \notin hist.appliedBefore

\* C6 amended: while the frame numbers passed never decrease, the updaters
\* never run for a frame number they already ran for.
C6_OncePerFrameNonDecreasing ==
    (LastIsUpdate /\ hist.ran # <<>> /\ monotone[hist.handler])
        => hist.frameNumber \notin hist.appliedBefore

\* a dynamic handler was updated for two frames and the last frame was
\* passed again
C6_Witness ==
    /\ LastIsUpdate
    /\ monotone[hist.handler]
    /\ handlers[hist.handler].updaters # <<>>
    /\ hist.frameNumber \in hist.appliedBefore
    /\ Cardinality(hist.appliedBefore) >= 2
    /\ hist.ran = <<>>

\* The runs of a group list, told from the groups alone: group k starts a run
\* when it is the first, or differs in technique from its predecessor, or does
\* not begin where its predecessor ends.
IsHead(groups, k) ==
    \/ k = 1
    \/ groups[k].technique # groups[k - 1].technique
    \/ groups[k].start # groups[k - 1].start + groups[k - 1].count

MaximalRuns(groups) ==
    { run \in (1..Len(groups)) \X (1..Len(groups)) :
        /\ run[1] <= run[2]
        /\ IsHead(groups, run[1])
        /\ \A k \in (run[1] + 1)..run[2] : ~IsHead(groups, k)
        /\ run[2] = Len(groups) \/ IsHead(groups, run[2] + 1) }

\* the spans of the runs of enabled techniques, over all geometries
EnabledSpans ==
    UNION { { [ geometry |-> g,
                start |-> geometries[g].groups[run[1]].start,
                count |-> geometries[g].groups[run[2]].start
                            + geometries[g].groups[run[2]].count
                            - geometries[g].groups[run[1]].start,
                technique |-> geometries[g].groups[run[1]].technique ] :
              run \in { x \in MaximalRuns(geometries[g].groups) :
                          enabled[geometries[g].groups[x[1]].technique] } } :
            g \in 1..Len(geometries) }

Span(call) ==
    [ geometry |-> call.geometry, start |-> call.start, count |-> call.count,
      technique |-> call.technique ]

SpansOf(calls) == { Span(calls[i]) : i \in 1..Len(calls) }

Constructible(techniqueIndex) ==
    \/ canHandle(techniqueIndex)
    \/ getObjectConstructor(Techniques[techniqueIndex]) # "undefined"

\* C7: a createObjects call that processes the groups (offset not created
\* before) merges exactly the maximal runs of consecutive, buffer-contiguous
\* groups of one technique: its merged spans are (start of the run's first
\* group, sum of the run's counts), one per run of an enabled technique, and
\* each span of a technique with a handler or an object constructor gets
\* exactly one createObject or object-construction call.
C7_OneSpanPerMaximalRun ==
    (hist.op = "createObjects" /\ hist.offset \notin hist.processedBefore) =>
        /\ SpansOf(hist.calls) = EnabledSpans
        /\ Len(hist.calls) = Cardinality(EnabledSpans)
        /\ \A i \in 1..Len(hist.calls) :
                (hist.calls[i].call # "none") <=> Constructible(hist.calls[i].technique)

\* two groups were merged into one span and the next group, of the same
\* technique but not contiguous, got a span of its own
C7_Witness ==
    /\ hist.op = "createObjects"
    /\ \E i, j \in 1..Len(hist.calls) :
            /\ hist.calls[i].geometry = hist.calls[j].geometry
            /\ hist.calls[i].last > hist.calls[i].first
            /\ hist.calls[j].first = hist.calls[i].last + 1
            /\ hist.calls[j].technique = hist.calls[i].technique
            /\ hist.calls[i].call = "createObject"

ObjectsOfTile(tile) == { o \in 1..Len(objects) : objects[o].tile = tile }

\* C8: a createObjects call for an offset processed before makes no
\* createObject or object-construction call and adds no object to the tile;
\* a call for an offset not processed before creates the spans of every
\* enabled run once more, as objects of that tile.
C8_OncePerOffset ==
    hist.op = "createObjects" =>
        IF hist.offset \in hist.processedBefore
        THEN /\ hist.calls = <<>>
             /\ Len(objects) = hist.objectsBefore
             /\ Len(tiles[hist.tile].objects) = hist.tileObjectsBefore
        ELSE /\ SpansOf(hist.calls) = EnabledSpans
             /\ \A i \in 1..Len(hist.calls) :
                    /\ Constructible(hist.calls[i].technique) => hist.calls[i].new # <<>>
                    /\ \A j \in 1..Len(hist.calls[i].new) :
                          /\ hist.calls[i].new[j] > hist.objectsBefore
                          /\ objects[hist.calls[i].new[j]].tile = hist.tile

\* both offsets were processed, with a group absorbed into a merged span, and
\* createObjects ran again for one of them
C8_Witness ==
    /\ hist.op = "createObjects"
    /\ hist.processedBefore = {TileOffset(tile) : tile \in Tiles}
    /\ \A tile \in Tiles : ObjectsOfTile(tile) # {}
    /\ \E g \in 1..Len(geometries) :
         \E k \in 2..Len(geometries[g].groups) :
            /\ ~IsHead(geometries[g].groups, k)
            /\ enabled[geometries[g].groups[k].technique]

Crossed(snap) ==
    \/ snap.lastOpacity > 0 /\ snap.opacity = 0
    \/ snap.lastOpacity = 0 /\ snap.opacity > 0

VisibleEntries(entries, frameNumber) ==
    { i \in 1..Len(entries) : tiles[entries[i].tile].frameNumLastVisible = frameNumber }

BaseColorSnaps ==
    { i \in 1..Len(hist.snaps) : hist.snaps[i].updater = "updateBaseColor" }

\* C9 as claimed: when the base-colour updater takes the opacity across
\* zero, every object registered in the handler (main list and outline/edge/
\* secondary list) whose tile is visible in the frame has visible = opacity > 0.
C9_AllRegisteredFollowBaseColor ==
    LastIsUpdate =>
        \A s \in BaseColorSnaps :
            Crossed(hist.snaps[s]) =>
                LET h == handlers[hist.handler]
                    entries == h.mainObjects \o h.secondObjects
                IN  \A i \in VisibleEntries(entries, hist.frameNumber) :
                        hist.snaps[s].visible[entries[i].object]
                            = (hist.snaps[s].opacity > 0)

\* C9 amended: when the base-colour updater takes the opacity across zero, it
\* leaves every object of the handler's main-object list whose tile is
\* visible in the frame with visible = opacity > 0.
C9_MainObjectsFollowBaseColor ==
    LastIsUpdate =>
        \A s \in BaseColorSnaps :
            Crossed(hist.snaps[s]) =>
                LET entries == handlers[hist.handler].mainObjects
                IN  \A i \in VisibleEntries(entries, hist.frameNumber) :
                        hist.snaps[s].visible[entries[i].object]
                            = (hist.snaps[s].opacity > 0)

\* the opacity went to zero and a main object of a visible tile was hidden
C9_Witness ==
    /\ LastIsUpdate
    /\ \E s \in BaseColorSnaps :
            /\ hist.snaps[s].lastOpacity > 0 /\ hist.snaps[s].opacity = 0
            /\ LET entries == handlers[hist.handler].mainObjects
               IN  \E i \in VisibleEntries(entries, hist.frameNumber) :
                        ~hist.snaps[s].visible[entries[i].object]

\* C10: an update in frame f leaves the visible flag of every object whose
\* tile has frameNumLastVisible # f as it was.
C10_OtherTilesUntouched ==
    [][ hist'.op = "update" =>
            \A o \in 1..Len(objects) :
                tiles[objects[o].tile].frameNumLastVisible # hist'.frameNumber
                    => objects'[o].visible = objects[o].visible ]_vars

\* a colour updater changed the opacity to zero while the handler holds an
\* object of a tile not visible in the frame, which stays visible
C10_Witness ==
    /\ LastIsUpdate
    /\ \E s \in 1..Len(hist.snaps) :
            hist.snaps[s].lastOpacity > 0 /\ hist.snaps[s].opacity = 0
    /\ LET entries == handlers[hist.handler].mainObjects
       IN  /\ \E i \in 1..Len(entries) :
                /\ tiles[entries[i].tile].frameNumLastVisible # hist.frameNumber
                /\ objects[entries[i].object].visible
           /\ \E i \in VisibleEntries(entries, hist.frameNumber) :
                ~objects[entries[i].object].visible

\* The material instance a main object draws with: the main material of the
\* handler the object refers to.
MainObjectsOf(hid) ==
    { o \in 1..Len(objects) : objects[o].handler = hid /\ objects[o].role = "main" }

\* C11: every main object createObject returns, for whatever tile, draws with
\* the main material of the handler that built it and is on that handler's
\* main-object list, so that after an update the main objects of every tile
\* show the material the update left.
C11_MainObjectsShareMainMaterial ==
    /\ \A o \in 1..Len(objects) :
            objects[o].role = "main" =>
                /\ objects[o].handler \in 1..Len(handlers)
                /\ \E i \in 1..Len(handlers[objects[o].handler].mainObjects) :
                        handlers[objects[o].handler].mainObjects[i]
                            = Entry(o, objects[o].tile)
    /\ hist.op = "createObject" =>
            /\ objects[hist.new[1]].handler = hist.handler
            /\ objects[hist.new[1]].role = "main"
            /\ objects[hist.new[1]].tile = hist.tile
    /\ LastIsUpdate =>
            \A s \in BaseColorSnaps :
                \A tile \in Tiles :
                    \A o \in MainObjectsOf(hist.handler) \cap ObjectsOfTile(tile) :
                        handlers[objects[o].handler].mainMaterial.opacity
                            = hist.snaps[s].opacity

\* an update changed the opacity of the main material of a handler that has
\* built a main object for each of the two tiles
C11_Witness ==
    /\ LastIsUpdate
    /\ \E s \in BaseColorSnaps : hist.snaps[s].lastOpacity # hist.snaps[s].opacity
    /\ \A tile \in Tiles : MainObjectsOf(hist.handler) \cap ObjectsOfTile(tile) # {}

\* C12: a getTechniqueHandler call for a technique whose kind name has no
\* constructor in the registry throws, whatever the pool holds: it returns no
\* handler, constructs none and leaves the pool as it was.
C12_ThrowsWhenUnregistered ==
    (hist.op = "getTechniqueHandler"
     /\ Techniques[hist.key].name \notin techniqueHandlers) =>
        /\ hist.error
        /\ hist.handler = 0
        /\ ~hist.constructed
        /\ pool[hist.key] = 0
        /\ \A hid \in 1..Len(handlers) : handlers[hid].technique # hist.key

\* the call threw while the pool held a handler, after a reset had emptied it
\* once
C12_Witness ==
    /\ hist.op = "getTechniqueHandler"
    /\ hist.error
    /\ retired # {}
    /\ \E key \in Keys : pool[key] # 0

\* C13: in every state isDynamic of a handler is true iff its list of
\* updaters is not empty, and that list is as the constructor left it (no
\* step adds or removes an updater); a terrain handler is never dynamic and
\* its update, for any frame number, changes neither the handler nor any
\* object.
C13_DynamicIffUpdaterRegistered ==
    /\ [](\A hid \in 1..Len(handlers) :
            /\ isDynamic(handlers[hid]) <=> handlers[hid].updaters # <<>>
            /\ handlers[hid].name = "terrain" => ~isDynamic(handlers[hid]))
    /\ [][ /\ \A hid \in 1..Len(handlers) :
                handlers'[hid].updaters = handlers[hid].updaters
           /\ (hist'.op = "update" /\ handlers[hist'.handler].name = "terrain") =>
                /\ hist'.ran = <<>>
                /\ handlers' = handlers
                /\ objects' = objects ]_vars

\* a terrain handler that built an object for a tile visible in frame 1 was
\* updated for frame 1
C13_Witness ==
    /\ LastIsUpdate
    /\ handlers[hist.handler].name = "terrain"
    /\ hist.frameNumber = 1
    /\ \E o \in MainObjectsOf(hist.handler) :
            tiles[objects[o].tile].frameNumLastVisible = 1

\* The state follows the construction of the handler, or an update call that
\* ran the updater; hist.env is the environment of that call.
Constructed == hist.op = "construct"
Ran(updater) == LastIsUpdate /\ \E i \in 1..Len(hist.ran) : hist.ran[i] = updater

\* the pixel-to-world ratio of an environment, 1.0 when it holds none
RatioOf(env) == IF env.pixelToWorld = NaN THEN 1000 ELSE env.pixelToWorld

\* C14: for a line technique in pixels with a constant lineWidth w, after the
\* construction and after every update that ran, with the ratio r of the
\* call's environment (1.0 when the environment holds none), the main
\* material's lineWidth is w * r * 0.5; w = 10 and r = 0.02 give 0.1.
C14_PixelLineWidth ==
    LET h == handlers[hist.handler]
        technique == Techniques[h.technique]
        w == technique.lineWidth.v[1]
        r == RatioOf(hist.env)
    IN  ( /\ Constructed \/ (LastIsUpdate /\ hist.ran # <<>>)
          /\ technique.metricUnit = "Pixel"
          /\ technique.lineWidth.k = "const" ) =>
            /\ h.mainMaterial.lineWidth = ((w * r) \div 1000) \div 2
            /\ (w = 10000 /\ r = 20) => h.mainMaterial.lineWidth = 100
            /\ hist.env.pixelToWorld = NaN => h.mainMaterial.lineWidth = w \div 2

\* a second update ran, with a ratio of 0.02, and left the width 0.1
C14_Witness ==
    /\ LastIsUpdate /\ hist.ran # <<>>
    /\ hist.lastBefore >= 0
    /\ Techniques[handlers[hist.handler].technique].metricUnit = "Pixel"
    /\ hist.env.pixelToWorld = 20
    /\ handlers[hist.handler].mainMaterial.lineWidth = 100

\* the secondary width the technique asks for in an environment, scaled
ScaledSecondaryWidth(technique, env) ==
    LET unitFactor == IF technique.metricUnit = "Pixel" THEN RatioOf(env) ELSE 1000
    IN  ((getPropertyValue(technique.secondaryWidth, env) * unitFactor) \div 1000) \div 2

\* C15: after updateSecondaryWidth (in the constructor, or as the last
\* updater of an update that ran) the secondary material's lineWidth is 0
\* when the scaled secondary width is at most the main material's lineWidth
\* and the main material's opacity is 1, and the scaled secondary width
\* otherwise.
C15_SecondaryWidthCollapse ==
    LET h == handlers[hist.handler]
        request == ScaledSecondaryWidth(Techniques[h.technique], hist.env)
    IN  ( /\ Constructed \/ Ran("updateSecondaryWidth")
          /\ h.hasSecond ) =>
            h.secondMaterial.lineWidth =
                IF request <= h.mainMaterial.lineWidth /\ h.mainMaterial.opacity = 100
                THEN 0 ELSE request

\* an update left an opaque main line exactly as wide as the secondary
\* width asked for, and the secondary width 0
C15_Witness ==
    /\ Ran("updateSecondaryWidth")
    /\ LET h == handlers[hist.handler]
       IN  /\ ScaledSecondaryWidth(Techniques[h.technique], hist.env)
                = h.mainMaterial.lineWidth
           /\ h.mainMaterial.lineWidth > 0
           /\ h.mainMaterial.opacity = 100
           /\ h.secondMaterial.lineWidth = 0

\* The cases of C15 that the techniques and environments produce.
C15_CasesNarrowerTranslucent ==
    /\ Ran("updateSecondaryWidth")
    /\ LET h == handlers[hist.handler]
       IN  /\ h.secondMaterial.lineWidth > 0
           /\ h.secondMaterial.lineWidth < h.mainMaterial.lineWidth
           /\ h.mainMaterial.opacity = 50

C15_CasesWiderOpaque ==
    /\ Ran("updateSecondaryWidth")
    /\ LET h == handlers[hist.handler]
       IN  /\ h.secondMaterial.lineWidth > h.mainMaterial.lineWidth
           /\ h.mainMaterial.opacity = 100

C15_CasesNarrowerOpaque ==
    /\ Ran("updateSecondaryWidth")
    /\ LET h == handlers[hist.handler]
       IN  /\ ScaledSecondaryWidth(Techniques[h.technique], hist.env)
                < h.mainMaterial.lineWidth
           /\ h.mainMaterial.opacity = 100
           /\ h.secondMaterial.lineWidth = 0

EntriesOf(h) == { h.mainObjects[i] : i \in 1..Len(h.mainObjects) }
                \cup { h.secondObjects[i] : i \in 1..Len(h.secondObjects) }

HandlerCalls == { i \in 1..Len(hist.calls) : hist.calls[i].call = "createObject" }

\* C17: within one createObjects call the pool's getTechniqueHandler is
\* invoked at most once for each technique index, and all the spans of one
\* technique index are built by the same handler instance.
C17_ResolvedOncePerTechnique ==
    hist.op = "createObjects" =>
        /\ \A key \in Keys : hist.queries[key] <= 1
        /\ \A i, j \in HandlerCalls :
                hist.calls[i].technique = hist.calls[j].technique
                    => hist.calls[i].handler = hist.calls[j].handler

\* The second part of C17 alone: one handler instance per technique index.
C17_SameHandlerPerTechnique ==
    hist.op = "createObjects" =>
        \A i, j \in HandlerCalls :
            hist.calls[i].technique = hist.calls[j].technique
                => hist.calls[i].handler = hist.calls[j].handler

NoDuplicates(seq) == \A i, j \in 1..Len(seq) : i # j => seq[i] # seq[j]

\* C18: after createObjects the tile's dynamicTechniqueHandlers holds each
\* dynamic handler at most once.
C18_DynamicHandlersOnce ==
    hist.op = "createObjects" =>
        NoDuplicates(tiles[hist.tile].dynamicTechniqueHandlers)

\* a group of a technique that is disabled, or that the filter rejects
Rejected(group, techniqueFilter) ==
    \/ enabled[group.technique] = FALSE
    \/ ~Accepts(techniqueFilter, enabled, group.technique)

C20_RegisteredOnce ==
    hist.op = "createObjects" => NoDuplicates(tiles[hist.tile].objects)

\* ---------------------------------------------------------------- C21
\* The list a colour updater walks, and the flags it found: those of the
\* state before the update call for the first snapshot, those the previous
\* colour updater left for a later one.
ListOf(h, updater) == IF updater = "updateBaseColor" THEN h.mainObjects ELSE h.secondObjects

Listed(entries, o, frameNumber) ==
    \E i \in VisibleEntries(entries, frameNumber) : entries[i].object = o

\* C21 as claimed: a colour updater that changes the opacity from one nonzero
\* value to another leaves the visible flag of every object as it was.
C21_NonzeroChangeKeepsFlags ==
    [][ hist'.op = "update" =>
            \A s \in 1..Len(hist'.snaps) :
                LET snap == hist'.snaps[s]
                    before == IF s = 1 THEN VisibleFlags(objects)
                              ELSE hist'.snaps[s - 1].visible
                IN  ( snap.lastOpacity > 0 /\ snap.opacity > 0
                      /\ snap.lastOpacity # snap.opacity ) => snap.visible = before ]_vars

\* C21 amended: a colour updater leaves every flag as it was when the opacity
\* did not change; when the opacity changed, to whatever value, it sets the
\* flag of every object of its list whose tile is visible in the frame to
\* opacity > 0 (TRUE for a change between nonzero values) and leaves the
\* flags of all other objects as they were.
C21_AnyChangeWritesFlags ==
    [][ hist'.op = "update" =>
            \A s \in 1..Len(hist'.snaps) :
                LET snap == hist'.snaps[s]
                    before == IF s = 1 THEN VisibleFlags(objects)
                              ELSE hist'.snaps[s - 1].visible
                    entries == ListOf(handlers[hist'.handler], snap.updater)
                IN  IF snap.lastOpacity = snap.opacity THEN snap.visible = before
                    ELSE \A o \in 1..Len(objects) :
                            snap.visible[o] =
                                IF Listed(entries, o, hist'.frameNumber)
                                THEN snap.opacity > 0 ELSE before[o] ]_vars

\* the base colour went from one nonzero opacity to another in a frame in
\* which one tile is visible and the other is not: the object of the visible
\* tile is shown, the object of the other tile is still hidden from an
\* earlier frame
C21_Witness ==
    /\ LastIsUpdate
    /\ \E s \in BaseColorSnaps :
            /\ hist.snaps[s].lastOpacity > 0 /\ hist.snaps[s].opacity > 0
            /\ hist.snaps[s].lastOpacity # hist.snaps[s].opacity
    /\ LET entries == handlers[hist.handler].mainObjects
       IN  /\ \E i \in VisibleEntries(entries, hist.frameNumber) :
                objects[entries[i].object].visible
           /\ \E i \in 1..Len(entries) :
                /\ tiles[entries[i].tile].frameNumLastVisible # hist.frameNumber
                /\ ~objects[entries[i].object].visible

\* ---------------------------------------------------------------- C22
\* the objects of a list whose tile is visible in the frame of the last update
FollowOpacity(entries, material) ==
    \A i \in VisibleEntries(entries, hist.frameNumber) :
        objects[entries[i].object].visible = (material.opacity > 0)

\* C22: after an update that ran its updaters in frame f, every registered
\* object whose tile has frameNumLastVisible = f has visible = (opacity of
\* its material > 0).
C22_VisibleFollowsOpacity ==
    (LastIsUpdate /\ hist.ran # <<>>) =>
        LET h == handlers[hist.handler]
        IN  /\ FollowOpacity(h.mainObjects, h.mainMaterial)
            /\ h.name = "fill" => FollowOpacity(h.secondObjects, h.secondMaterial)

\* ---------------------------------------------------------------- C23
\* C23: the entry that createObject of a line handler with a secondary
\* material appends to the secondary-object list names the secondary line
\* object of that call (the second object returned), not the main one.
C23_SecondaryEntryIsSecondaryObject ==
    LET h == handlers[hist.handler]
    IN  ( /\ hist.op = "createObject"
          /\ h.name \in {"solid-line", "dashed-line"}
          /\ h.hasSecond ) =>
            LET entry == h.secondObjects[Len(h.secondObjects)]
            IN  /\ entry.object = hist.new[2]
                /\ objects[entry.object].role = "second"

\* ---------------------------------------------------------------- C24
\* the main line width and the main opacity that a technique asks for in the
\* environment of a frame
FrameLineWidth(technique, env) ==
    LET unitFactor == IF technique.metricUnit = "Pixel" THEN RatioOf(env) ELSE 1000
    IN  ((getPropertyValue(technique.lineWidth, env) * unitFactor) \div 1000) \div 2

FrameOpacity(technique, env) ==
    IF isDefined(technique.opacity)
    THEN (getPropertyValue(technique.color, env)
            * getPropertyValue(technique.opacity, env)) \div 100
    ELSE getPropertyValue(technique.color, env)

PositionsOf(updater) == { i \in 1..Len(hist.ran) : hist.ran[i] = updater }

\* C24: in an update of a line handler that ran the secondary-width updater,
\* the base-colour updater and the line-width updater ran before it, and the
\* secondary width it left is the collapse rule applied to the main line width
\* and the main opacity of the frame's environment.
C24_SecondaryWidthAfterMain ==
    LET h == handlers[hist.handler]
        technique == Techniques[h.technique]
        request == ScaledSecondaryWidth(technique, hist.env)
    IN  ( /\ Ran("updateSecondaryWidth")
          /\ h.name \in {"solid-line", "dashed-line"} ) =>
            /\ \A j \in PositionsOf("updateSecondaryWidth") :
                  \A i \in PositionsOf("updateBaseColor") \cup PositionsOf("updateLineWidth") :
                      i < j
            /\ h.secondMaterial.lineWidth =
                  IF request <= FrameLineWidth(technique, hist.env)
                     /\ FrameOpacity(technique, hist.env) = 100
                  THEN 0 ELSE request

\* a second update ran the base-colour, line-width and secondary-width
\* updaters and left a translucent main line wider than the secondary width
\* asked for, which is kept
C24_Witness ==
    /\ Ran("updateBaseColor") /\ Ran("updateLineWidth") /\ Ran("updateSecondaryWidth")
    /\ hist.lastBefore >= 0
    /\ LET h == handlers[hist.handler]
       IN  /\ h.mainMaterial.opacity < 100
           /\ h.mainMaterial.lineWidth > h.secondMaterial.lineWidth
           /\ h.secondMaterial.lineWidth > 0

\* ---------------------------------------------------------------- C25
\* C25: for a line handler with a secondary material, after the construction
\* and after every update that ran its updaters, the secondary material's
\* lineWidth is the collapse rule applied to the state the handler is in: 0
\* when the scaled secondary width is at most the main material's lineWidth
\* and the main opacity is 1, the scaled secondary width otherwise.
C25_SecondaryWidthCurrent ==
    LET h == handlers[hist.handler]
        request == ScaledSecondaryWidth(Techniques[h.technique], hist.env)
    IN  ( /\ Constructed \/ (LastIsUpdate /\ hist.ran # <<>>)
          /\ h.name \in {"solid-line", "dashed-line"}
          /\ h.hasSecond ) =>
            h.secondMaterial.lineWidth =
                IF request <= h.mainMaterial.lineWidth /\ h.mainMaterial.opacity = 100
                THEN 0 ELSE request

\* ---------------------------------------------------------------- C26
\* the unit factor of a technique in an environment, and a size scaled by it
FactorOf(technique, env) ==
    IF technique.metricUnit = "Pixel" THEN RatioOf(env) ELSE 1000

Scaled(attr, technique, env) ==
    (getPropertyValue(attr, env) * FactorOf(technique, env)) \div 1000

\* C26: after the construction of a line handler and after every update that
\* ran its updaters, with the environment of that call: the unit factor is
\* 1.0 for a technique in world units and the pixel-to-world ratio for one in
\* pixels; dashSize and gapSize are value * factor * 0.5 and outlineWidth is
\* value * factor.
C26_UnitConversion ==
    LET h == handlers[hist.handler]
        technique == Techniques[h.technique]
    IN  ( /\ Constructed \/ (LastIsUpdate /\ hist.ran # <<>>)
          /\ h.name \in {"solid-line", "dashed-line"} ) =>
            /\ getUnitFactor(h, Context(hist.env, 0)) =
                  IF technique.metricUnit = "Pixel"
                  THEN (IF hist.env.pixelToWorld = NaN THEN 1000
                        ELSE hist.env.pixelToWorld)
                  ELSE 1000
            /\ isDefined(technique.dashSize) =>
                  h.mainMaterial.dashSize = Scaled(technique.dashSize, technique, hist.env) \div 2
            /\ isDefined(technique.gapSize) =>
                  h.mainMaterial.gapSize = Scaled(technique.gapSize, technique, hist.env) \div 2
            /\ isDefined(technique.outlineWidth) =>
                  h.mainMaterial.outlineWidth =
                      Scaled(technique.outlineWidth, technique, hist.env)

\* a second update of a handler in pixels ran with a ratio of 0.02 and left
\* the dash size 4 * 0.02 * 0.5, the gap size 2 * 0.02 * 0.5 and the outline
\* width 2 * 0.02
C26_Witness ==
    /\ LastIsUpdate /\ hist.ran # <<>>
    /\ hist.lastBefore >= 0
    /\ hist.env.pixelToWorld = 20
    /\ LET h == handlers[hist.handler]
       IN  /\ Techniques[h.technique].metricUnit = "Pixel"
           /\ h.mainMaterial.dashSize = 40
           /\ h.mainMaterial.gapSize = 20
           /\ h.mainMaterial.outlineWidth = 40

\* an update of a handler in world units ran with a ratio of 0.04 and left
\* the gap size 4 * 0.5 and the outline width 2
C26_CasesWorldUnits ==
    /\ LastIsUpdate /\ Ran("updateGapSize")
    /\ hist.env.pixelToWorld = 40
    /\ LET h == handlers[hist.handler]
       IN  /\ Techniques[h.technique].metricUnit # "Pixel"
           /\ h.mainMaterial.gapSize = 2000
           /\ h.mainMaterial.outlineWidth = 2000

\* ---------------------------------------------------------------- C27
Registered(h, updater) == \E i \in 1..Len(h.updaters) : h.updaters[i] = updater

WorldConstant(attr, technique) == attr.k = "const" /\ technique.metricUnit # "Pixel"

\* C27: a line handler has the width, outline-width, dash and gap updater
\* registered exactly when the attribute is an expression or the unit is
\* pixel; a constant attribute in world units has, in every state, the value
\* the construction gave it (value * 1.0, halved for width, dash and gap); a
\* handler whose attributes are all constants in world units, without fading
\* and without secondary width, is not dynamic, and every handler in pixels
\* is dynamic.
C27_WidthUpdatersRegistered ==
    \A hid \in 1..Len(handlers) :
        LET h == handlers[hid]
            technique == Techniques[h.technique]
            pixel == technique.metricUnit = "Pixel"
        IN  h.name \in {"solid-line", "dashed-line"} =>
              /\ Registered(h, "updateLineWidth") <=> (isExpr(technique.lineWidth) \/ pixel)
              /\ Registered(h, "updateOutlineWidth")
                    <=> (isExpr(technique.outlineWidth) \/ pixel)
              /\ Registered(h, "updateDashSize") <=> (isExpr(technique.dashSize) \/ pixel)
              /\ Registered(h, "updateGapSize") <=> (isExpr(technique.gapSize) \/ pixel)
              /\ WorldConstant(technique.lineWidth, technique) =>
                    h.mainMaterial.lineWidth = technique.lineWidth.v[1] \div 2
              /\ WorldConstant(technique.outlineWidth, technique) =>
                    h.mainMaterial.outlineWidth = technique.outlineWidth.v[1]
              /\ WorldConstant(technique.dashSize, technique) =>
                    h.mainMaterial.dashSize = technique.dashSize.v[1] \div 2
              /\ WorldConstant(technique.gapSize, technique) =>
                    h.mainMaterial.gapSize = technique.gapSize.v[1] \div 2
              /\ ( /\ ~pixel
                   /\ \A attr \in { technique.color, technique.opacity, technique.lineWidth,
                                    technique.outlineWidth, technique.dashSize,
                                    technique.gapSize } : ~isExpr(attr)
                   /\ ~isDefined(technique.fadeNear) /\ ~isDefined(technique.fadeFar)
                   /\ ~isDefined(technique.secondaryWidth) ) => ~isDynamic(h)
              /\ pixel => isDynamic(h)

\* an update call came to a handler in world units whose attributes are all
\* constants: it is not dynamic, no updater ran, and the sizes are those of
\* the construction
C27_Witness ==
    /\ LastIsUpdate /\ hist.ran = <<>>
    /\ hist.lastBefore < hist.frameNumber
    /\ LET h == handlers[hist.handler]
           technique == Techniques[h.technique]
       IN  /\ h.name = "solid-line"
           /\ ~isDynamic(h)
           /\ WorldConstant(technique.lineWidth, technique)
           /\ WorldConstant(technique.outlineWidth, technique)
           /\ h.mainMaterial.lineWidth = 2000
           /\ h.mainMaterial.outlineWidth = 1000
           /\ h.mainMaterial.dashSize = 1500
           /\ h.mainMaterial.gapSize = 1000

\* a handler in pixels with constant sizes is dynamic
C27_CasesPixel ==
    \E hid \in 1..Len(handlers) :
        /\ Techniques[handlers[hid].technique].metricUnit = "Pixel"
        /\ ~isExpr(Techniques[handlers[hid].technique].lineWidth)
        /\ Registered(handlers[hid], "updateLineWidth")
        /\ isDynamic(handlers[hid])

\* ---------------------------------------------------------------- C28
\* extrusion animation as the claim states it: the technique's
\* animateExtrusion when it is defined and the map view's handler is not
\* force-enabled, else the enabled flag of the map view's handler; disabled
\* without such a handler
AnimationEnabledFor(technique) ==
    IF ~animatedExtrusionHandler.defined THEN FALSE
    ELSE IF technique.animateExtrusion.k = "const" /\ ~animatedExtrusionHandler.forceEnabled
    THEN technique.animateExtrusion.v[1] # 0
    ELSE animatedExtrusionHandler.enabled

\* C28: an extruded-polygon handler has isShareableAcrossTiles = FALSE when
\* extrusion animation is enabled and TRUE otherwise, after its construction
\* and after every createObject, and the pool holds no animated handler.
C28_AnimatedNotShareable ==
    /\ \A hid \in 1..Len(handlers) :
          LET h == handlers[hid]
          IN  h.name = "extruded-polygon" =>
                h.isShareableAcrossTiles = ~AnimationEnabledFor(Techniques[h.technique])
    /\ \A key \in DOMAIN pool :
          (pool[key] # 0 /\ Techniques[key].name = "extruded-polygon")
              => ~AnimationEnabledFor(Techniques[key])

\* the force-enabled map view switches the animation on for a technique that
\* switches it off: the pool was asked twice for the technique, gave two
\* handlers and holds none
C28_Witness ==
    /\ LastIsGet /\ hist.constructed
    /\ animatedExtrusionHandler.forceEnabled
    /\ Techniques[hist.key].animateExtrusion = Const(0)
    /\ ~handlers[hist.handler].isShareableAcrossTiles
    /\ hist.before # {}
    /\ pool[hist.key] = 0

\* the map view is force-enabled with the animation off: the handler of a
\* technique that asks for the animation is shareable and in the pool, and
\* has built an object
C28_CasesForcedOff ==
    \E hid \in 1..Len(handlers) :
        /\ Techniques[handlers[hid].technique].animateExtrusion = Const(1)
        /\ handlers[hid].isShareableAcrossTiles
        /\ pool[handlers[hid].technique] = hid
        /\ handlers[hid].mainObjects # <<>>

\* ---------------------------------------------------------------- C29
TerrainKeys == { key \in Keys : Techniques[key].name = "terrain" }

\* C29 as claimed: a terrain handler the pool constructs is shareable and
\* stored, and a later request for the same technique returns a handler
\* returned before.
C29_TerrainShared ==
    (LastIsGet /\ hist.key \in TerrainKeys) =>
        /\ hist.constructed =>
              Shareable(hist.handler) /\ pool[hist.key] = hist.handler
        /\ hist.before # {} => hist.handler \in HandlersOf(hist.before)

\* C29 amended: a terrain handler has isShareableAcrossTiles = FALSE, the
\* pool never holds one, and every request for a terrain technique constructs
\* a handler that no earlier request returned.
C29_TerrainNeverShared ==
    /\ \A hid \in 1..Len(handlers) : handlers[hid].name = "terrain" => ~Shareable(hid)
    /\ \A key \in TerrainKeys : pool[key] = 0
    /\ (LastIsGet /\ hist.key \in TerrainKeys) =>
          /\ hist.constructed
          /\ hist.handler \notin HandlersOf(hist.before)

\* the second request for the terrain technique constructed a second handler
C29_Witness ==
    /\ LastIsGet /\ hist.key \in TerrainKeys
    /\ hist.before # {}
    /\ hist.constructed
    /\ hist.handler = 2
    /\ handlers[1].name = "terrain"
    /\ pool[hist.key] = 0

\* ---------------------------------------------------------------- C30
ClipSizes(h) == <<h.mainMaterial.clipTileSize, h.secondMaterial.clipTileSize>>

IsLine(h) == h.name \in {"solid-line", "dashed-line"}

\* C30: a line handler is shareable in every state, also with clipping on a
\* planar tile, and the pool stores it when it constructs it; the
\* construction leaves the clip size of the materials unset, and neither
\* createObject nor update writes it: createObject chains a callback on every
\* object it builds when the technique clips and the tile is planar, and on
\* none otherwise.
C30_ClippedLineStaysShareable ==
    /\ [](\A hid \in 1..Len(handlers) :
            IsLine(handlers[hid]) => handlers[hid].isShareableAcrossTiles)
    /\ []( ( hist.op = "getTechniqueHandler" /\ hist.constructed
              /\ IsLine(handlers[hist.handler]) ) =>
                /\ pool[hist.key] = hist.handler
                /\ ClipSizes(handlers[hist.handler]) = <<0, 0>> )
    /\ [][ /\ hist'.op \in {"getTechniqueHandler", "createObject", "update"} =>
                \A hid \in 1..Len(handlers) :
                    ClipSizes(handlers'[hid]) = ClipSizes(handlers[hid])
           /\ ( hist'.op = "createObject" /\ IsLine(handlers[hist'.handler]) ) =>
                \A i \in 1..Len(hist'.new) :
                    (objects'[hist'.new[i]].onBeforeRender # <<>>)
                        = ( Techniques[handlers[hist'.handler].technique].clipping
                            /\ tiles[hist'.tile].planar ) ]_vars

\* a pooled handler of a clipping line technique has built, for a planar
\* tile, a main and a secondary object with their callbacks, and an update
\* ran: the clip size of its materials is still unset
C30_Witness ==
    /\ LastIsUpdate /\ hist.ran # <<>>
    /\ LET h == handlers[hist.handler]
       IN  /\ Techniques[h.technique].clipping
           /\ pool[h.technique] = hist.handler
           /\ h.isShareableAcrossTiles
           /\ \E i \in 1..Len(h.mainObjects) :
                /\ tiles[h.mainObjects[i].tile].planar
                /\ objects[h.mainObjects[i].object].onBeforeRender # <<>>
           /\ \E o \in 1..Len(objects) :
                objects[o].role = "second" /\ objects[o].onBeforeRender # <<>>
           /\ ClipSizes(h) = <<0, 0>>

\* rendering an object of the second tile wrote the size of that tile to the
\* material of the pooled handler
C30_CasesRendered ==
    /\ hist.op = "render"
    /\ LET h == handlers[objects[hist.object].handler]
       IN  /\ objects[hist.object].tile = 2
           /\ h.mainMaterial.clipTileSize = TileSize(2)
           /\ pool[h.technique] = objects[hist.object].handler

\* ---- C31
\* C31: createObject of every handler variant tags the main object it produces
\* with the picking/feature metadata of the source geometry whenever that
\* geometry carries object infos, for a line with and without secondary line.
C31_MainObjectTagged ==
    hist.op = "createObjects" =>
        \A i \in 1..Len(hist.calls) :
            LET call == hist.calls[i]
            IN  (call.call = "createObject" /\ geometries[call.geometry].objInfos) =>
                    objects[call.new[1]].userData # "none"

\* ---- C32
\* C32: update records the frame number only after every registered updater
\* has run: each updater of update(f) runs while the last-applied frame number
\* is still the previous one, and an update(f) left by the exception of an
\* updater has not recorded f.
C32_RecordedAfterUpdaters ==
    /\ hist.op = "update" =>
            \A i \in 1..Len(hist.during) : hist.during[i] = hist.lastBefore
    /\ hist.op = "updateThrows" =>
            handlers[hist.handler].lastUpdateFrameNumber = hist.lastBefore

\* ---- C33
\* a technique with neither a handler variant nor a legacy object constructor
Unbuildable(techniqueIndex) ==
    ~canHandle(techniqueIndex)
        /\ getObjectConstructor(Techniques[techniqueIndex]) = "undefined"

\* the decoded geometries without the groups of such techniques
WithoutUnbuildable(geos) ==
    [ g \in 1..Len(geos) |->
        [geos[g] EXCEPT !.groups =
            SelectSeq(@, LAMBDA group : ~Unbuildable(group.technique))] ]

\* what the calls built, without the positions of the groups in their lists
Built(calls) ==
    LET made == SelectSeq(calls, LAMBDA call : call.call # "none")
    IN  [ i \in 1..Len(made) |->
            [ geometry |-> made[i].geometry, start |-> made[i].start,
              count |-> made[i].count, technique |-> made[i].technique,
              call |-> made[i].call, handler |-> made[i].handler,
              constructed |-> made[i].constructed, new |-> made[i].new ] ]

\* C33: a group whose technique has neither a handler variant nor a legacy
\* object constructor is skipped without error: createObjects creates no object
\* for it, and builds the other groups and geometries of the tile exactly as
\* it would if that group were absent (same spans, objects, handlers, pool,
\* tile lists and created-offsets markers).
C33_UnbuildableGroupSkipped ==
    [][ \A tile \in Tiles :
            (hist'.op = "createObjects" /\ hist'.tile = tile) =>
                \E r \in { createObjects(pool, handlers, objects, tiles[tile],
                                         WithoutUnbuildable(geometries), tile, "enabled",
                                         Context(Env(1), 0), animatedExtrusionHandler,
                                         enabled) } :
                    /\ \A i \in 1..Len(hist'.calls) :
                            Unbuildable(hist'.calls[i].technique) =>
                                hist'.calls[i].new = <<>>
                    /\ \A o \in 1..Len(objects') :
                            ~Unbuildable(objects'[o].technique)
                    /\ Built(hist'.calls) = Built(r.calls)
                    /\ objects' = r.objects
                    /\ handlers' = r.handlers
                    /\ pool' = r.pool
                    /\ tiles'[tile] = r.tile
                    /\ WithoutUnbuildable(geometries') = r.geometries ]_vars

\* createObjects passed over a group without handler and constructor and then
\* built a later group of the same geometry and a group of the next geometry
C33_Witness ==
    /\ hist.op = "createObjects"
    /\ \E i, j, k \in 1..Len(hist.calls) :
            /\ i < j /\ j < k
            /\ hist.calls[i].call = "none" /\ Unbuildable(hist.calls[i].technique)
            /\ hist.calls[j].geometry = hist.calls[i].geometry
            /\ hist.calls[j].new # <<>>
            /\ hist.calls[k].geometry # hist.calls[i].geometry
            /\ hist.calls[k].new # <<>>

\* ---- C34
Marked(group, offset) ==
    \E i \in 1..Len(group.createdOffsets) : group.createdOffsets[i] = offset

\* C34 as stated: a group is marked as created for a tile offset only if an
\* object that covers its buffer range was produced and registered for it on
\* the tile of that offset.
C34_MarkedOnlyIfBuilt ==
    hist.op = "createObjects" =>
        \A g \in 1..Len(geometries) :
            \A k \in 1..Len(geometries[g].groups) :
                LET group == geometries[g].groups[k]
                IN  \A tile \in Tiles :
                        Marked(group, TileOffset(tile)) =>
                            \E o \in ObjectsOfTile(tile) :
                                /\ objects[o].registered
                                /\ objects[o].technique = group.technique
                                /\ objects[o].start <= group.start
                                /\ group.start + group.count
                                        <= objects[o].start + objects[o].count

\* C34 amended: a group is marked as created for the tile offset when
\* createObjects takes it up, before anything is built for it and whether or
\* not something is built: every span the call took up had the offset in its
\* marker when its object was about to be created, every group of the span has
\* it afterwards, also when no object was made for the span, and a group that
\* is not marked was rejected by its technique's enabled flag.
C34_MarkedWhenTakenUp ==
    hist.op = "createObjects" =>
        /\ \A i \in 1..Len(hist.calls) :
              LET call == hist.calls[i]
              IN  /\ \E m \in 1..Len(call.marked) : call.marked[m] = hist.offset
                  /\ \A k \in call.first..call.last :
                        Marked(geometries[call.geometry].groups[k], hist.offset)
        /\ \A g \in 1..Len(geometries) :
              \A k \in 1..Len(geometries[g].groups) :
                 ~Marked(geometries[g].groups[k], hist.offset) =>
                    enabled[geometries[g].groups[k].technique] = FALSE

\* no object was made for a span, and the offset is in the marker of its group
C34_Witness ==
    /\ hist.op = "createObjects"
    /\ \E i \in 1..Len(hist.calls) :
            /\ hist.calls[i].call = "none"
            /\ hist.calls[i].new = <<>>
            /\ Marked(geometries[hist.calls[i].geometry].groups[hist.calls[i].first],
                      hist.offset)
            /\ \A o \in 1..Len(objects) :
                    objects[o].technique # hist.calls[i].technique

\* ---- C35
\* C35: after any sequence of createObjects calls on a decoded tile
\* initialised once, the created-offsets marker of every group holds each tile
\* offset at most once.
C35_OffsetsMarkedOnce ==
    \A g \in 1..Len(geometries) :
        \A k \in 1..Len(geometries[g].groups) :
            NoDuplicates(geometries[g].groups[k].createdOffsets)

\* createObjects ran for both offsets and again for one of them, and a group
\* absorbed into a merged span holds both offsets
C35_Witness ==
    /\ hist.op = "createObjects"
    /\ hist.processedBefore = {TileOffset(tile) : tile \in Tiles}
    /\ \E g \in 1..Len(geometries) :
         \E k \in 2..Len(geometries[g].groups) :
            /\ ~IsHead(geometries[g].groups, k)
            /\ Len(geometries[g].groups[k].createdOffsets) = Cardinality(Tiles)
            /\ \A tile \in Tiles :
                    Marked(geometries[g].groups[k], TileOffset(tile))

\* ---- C36
\* the kinds a technique has for the filter: none when the kind is absent or
\* of a type that is not a kind
KindsOf(key) ==
    IF TechniqueKinds[key].type \in {"string", "array"}
    THEN TechniqueKinds[key].values ELSE {}

Intersects(key, kindSet) == kindSet.defined /\ KindsOf(key) \cap kindSet.kinds # {}

\* C36: initDecodedTile decides the enabled flag of a technique once: a
\* technique with no kind or an empty kind set is enabled; another one is
\* disabled exactly when its kind intersects disabledKinds and does not
\* intersect a defined enabledKinds; a flag already defined is kept, whatever
\* kinds are passed.
C36_EnabledDecidedOnce ==
    hist.op = "initDecodedTile" =>
        \A key \in Keys :
            /\ key \in DOMAIN enabled
            /\ IF key \in DOMAIN hist.enabledBefore
               THEN enabled[key] = hist.enabledBefore[key]
               ELSE IF KindsOf(key) = {}
               THEN enabled[key] = TRUE
               ELSE enabled[key] = FALSE <=>
                        /\ Intersects(key, hist.disabledKinds)
                        /\ ~Intersects(key, hist.enabledKinds)

\* a later call: a technique the first call disabled stays disabled although
\* the kinds now passed would enable it, and one it enabled stays enabled
\* although they would disable it
C36_Witness ==
    /\ hist.op = "initDecodedTile"
    /\ DOMAIN hist.enabledBefore = Keys
    /\ \E key \in Keys :
            /\ KindsOf(key) # {}
            /\ enabled[key] = FALSE
            /\ ~Intersects(key, hist.disabledKinds)
    /\ \E key \in Keys :
            /\ enabled[key] = TRUE
            /\ Intersects(key, hist.disabledKinds)
            /\ ~Intersects(key, hist.enabledKinds)

\* a first call: a technique in disabledKinds was disabled, one in both
\* disabledKinds and enabledKinds was enabled, and a flag set by the style
\* was kept against the kinds
C36_CasesFirstCall ==
    /\ hist.op = "initDecodedTile"
    /\ \E key \in Keys \ DOMAIN hist.enabledBefore :
            Intersects(key, hist.disabledKinds) /\ enabled[key] = FALSE
    /\ \E key \in Keys \ DOMAIN hist.enabledBefore :
            /\ Intersects(key, hist.disabledKinds)
            /\ Intersects(key, hist.enabledKinds)
            /\ enabled[key] = TRUE
    /\ \E key \in DOMAIN hist.enabledBefore :
            /\ hist.enabledBefore[key] = TRUE
            /\ Intersects(key, hist.disabledKinds)
            /\ ~Intersects(key, hist.enabledKinds)

\* ---- C37
\* C37: a further initDecodedTile call on a decoded tile whose groups were
\* created for some tile offset keeps the created-offsets markers of the
\* groups, and a createObjects call that follows for an offset processed
\* before creates no object.
C37_ReinitKeepsMarkers ==
    /\ hist.op = "initDecodedTile" =>
            \A g \in 1..Len(geometries) :
                \A k \in 1..Len(geometries[g].groups) :
                    geometries[g].groups[k].createdOffsets
                        = hist.geometriesBefore[g].groups[k].createdOffsets
    /\ (hist.op = "createObjects" /\ hist.offset \in hist.processedBefore) =>
            /\ Len(objects) = hist.objectsBefore
            /\ Len(tiles[hist.tile].objects) = hist.tileObjectsBefore

\* ---- C38
LegacyCalls == { i \in 1..Len(hist.calls) : hist.calls[i].call = "legacy" }

\* C38: on the legacy path a material is created once per technique index in
\* one createObjects call, for the first span of that technique, and reused
\* for every further one; the path adds nothing to the tile's list of dynamic
\* handlers, which grows only by the dynamic handlers of the handler path, and
\* its objects belong to no handler, so no update reaches them.
C38_LegacyMaterialOncePerCall ==
    hist.op = "createObjects" =>
        /\ \A i \in LegacyCalls :
              hist.calls[i].createdMaterial <=>
                  ~\E j \in LegacyCalls :
                        j < i /\ hist.calls[j].technique = hist.calls[i].technique
        /\ \A i \in LegacyCalls :
              \A n \in 1..Len(hist.calls[i].new) :
                  objects[hist.calls[i].new[n]].handler = 0
        /\ Len(tiles[hist.tile].dynamicTechniqueHandlers)
              = hist.dynamicBefore
                  + Cardinality({ i \in HandlerCalls :
                                    isDynamic(handlers[hist.calls[i].handler]) })
        /\ \A d \in 1..Len(tiles[hist.tile].dynamicTechniqueHandlers) :
              tiles[hist.tile].dynamicTechniqueHandlers[d] \in 1..Len(handlers)

\* two spans of one technique were built on the legacy path, the second with
\* the material of the first, in a call that also registered a dynamic handler
C38_Witness ==
    /\ hist.op = "createObjects"
    /\ \E i, j \in LegacyCalls :
            /\ i < j
            /\ hist.calls[i].technique = hist.calls[j].technique
            /\ hist.calls[i].createdMaterial
            /\ ~hist.calls[j].createdMaterial
    /\ Len(tiles[hist.tile].dynamicTechniqueHandlers) > hist.dynamicBefore

\* ---- C39
Pooled == { pool[key] : key \in DOMAIN pool } \ {0}

\* C39: every handler stored in the pool reports isShareableAcrossTiles =
\* true in every reachable state: no createObject or update call on a pooled
\* handler turns the flag to false after the handler was inserted.
C39_PooledStayShareable ==
    \A hid \in Pooled : handlers[hid].isShareableAcrossTiles

\* the map view forces the animation off: the pooled handler of a technique
\* that asks for the animation has built an object and its updaters have run
C39_Witness ==
    /\ hist.op = "update"
    /\ hist.handler \in Pooled
    /\ hist.ran # <<>>
    /\ isDefined(Techniques[handlers[hist.handler].technique].animateExtrusion)
    /\ handlers[hist.handler].mainObjects # <<>>

\* the map view enables the animation: the pooled handler of a technique that
\* switches it off has built an object and has been updated, and a handler
\* that animates, is not shareable and is not in the pool has built objects
C39_CasesAnimated ==
    /\ animatedExtrusionHandler.enabled
    /\ \E hid \in Pooled :
            /\ handlers[hid].mainObjects # <<>>
            /\ handlers[hid].lastUpdateFrameNumber >= 0
    /\ \E hid \in 1..Len(handlers) :
            /\ ~handlers[hid].isShareableAcrossTiles
            /\ hid \notin Pooled
            /\ handlers[hid].mainObjects # <<>>

\* ---- C40
\* the handlers that animate the extrusion and have built an object for tile
AnimatingOn(tile) ==
    { hid \in 1..Len(handlers) :
        /\ handlers[hid].extrusionAnimationEnabled
        /\ \E i \in 1..Len(handlers[hid].mainObjects) :
                handlers[hid].mainObjects[i].tile = tile }

\* C40: with the extrusion animation enabled, at most one animated-extrusion
\* tile handler is created for a tile and added to the map view's
\* animated-extrusion handler, whatever the number of createObject calls on
\* the tile and of extruded-polygon handlers constructed for it: the tile has
\* one exactly when a handler that animates has built an object for it.
C40_OneTileHandlerPerTile ==
    \A tile \in Tiles :
        /\ tiles[tile].extrusionTileHandlersAdded <= 1
        /\ tiles[tile].animatedExtrusionTileHandler
                <=> tiles[tile].extrusionTileHandlersAdded = 1
        /\ tiles[tile].animatedExtrusionTileHandler <=> AnimatingOn(tile) # {}

\* two handlers that animate have each built an object for the same tile
C40_Witness ==
    \E tile \in Tiles :
        /\ Cardinality(AnimatingOn(tile)) >= 2
        /\ tiles[tile].extrusionTileHandlersAdded = 1

====
